---- MODULE Spec2Model ----
(***************************************************************************)
(* Rustica: the challenge / response proof-of-possession protocol and the  *)
(* SSH certificate issuance path of rustica/src/server.rs, with the        *)
(* signing registry of rustica/src/signing/mod.rs.                         *)
(*                                                                         *)
(* Strings are sequences of one-character tokens (a few tokens stand for   *)
(* longer atoms: "ssh-ed25519", a base64 key blob "A", a 1025 byte filler  *)
(* "PAD"), so that format!, join, parse::<u64> and split_whitespace are    *)
(* computed on the characters.  Option<T> is a sequence of length 0 or 1.  *)
(***************************************************************************)
EXTENDS Integers, Sequences, FiniteSets, TLC

VARIABLES
    now,                    \* SystemTime::now() in whole seconds
    require_rustica_proof,  \* RusticaServer.require_rustica_proof
    minted,                 \* Option: the last ChallengeResponse and what it was asked for
    resp,                   \* Option: the outcome of the handler that just ran
    require_attestation_chain,  \* RusticaServer.require_attestation_chain
    \* SigningConfiguration::convert_to_signing_mechanism
    authority_configurations,   \* the configured authorities and their SSH keys
    pending,                    \* the authorities the loop has not visited yet
    public_keys,                \* fingerprint -> the authority it was seen in
    converted_authorities,      \* the authorities converted so far
    mechanism,                  \* Option: the Result of the conversion
    \* the AllowedSigners endpoint
    rate_limiter,           \* allowed_signers_rate_limiter: the LRU, most recent first
    allowed_signers_cache,  \* allowed_signers_cache behind its RwLock
    limiter_lock,           \* Option: the request that holds the limiter's mutex
    cache_readers,          \* the requests that hold the cache's read lock
    cache_writer,           \* Option: the request that holds the write lock
    requests,               \* the AllowedSigners requests and where each one is
    passed,                 \* the requests that passed the rate limiter (history)
    refreshes,              \* the cache updates, in order (history)
    \* rustica-agent: ffi_get_allowed_signers and ffi_verify_signed_data
    out_file,               \* Option: the content of the file at out_path
    ffi,                    \* where ffi_get_allowed_signers is, and its status
    verify,                 \* Option: what ffi_verify_signed_data read and found
    \* a caller that presents the challenge it holds more than once
    presented               \* the calls made with a challenge, in order (history)

\* the state of the startup conversion of the signing configuration
registryVars ==
    <<authority_configurations, pending, public_keys, converted_authorities,
      mechanism>>

\* the state of the AllowedSigners endpoint
signersVars ==
    <<rate_limiter, allowed_signers_cache, limiter_lock, cache_readers,
      cache_writer, requests, passed, refreshes>>

\* what the AllowedSigners endpoint leaves alone
serverVars ==
    <<require_rustica_proof, minted, resp, require_attestation_chain,
      registryVars>>

\* the state of the agent's calls
agentVars == <<out_file, ffi, verify, presented>>

vars ==
    <<now, require_rustica_proof, minted, resp, require_attestation_chain,
      registryVars, signersVars, agentVars>>

-----------------------------------------------------------------------------
(* Bounds of the model *)

\* u64 is modelled with TimeBits bits: arithmetic is modulo 2^TimeBits
TimeBits == 6
\* the wall clock when the server starts
StartTime == 6
\* how many seconds the clock advances
MaxTicks == 7
\* seconds that may pass between the two clock reads of one Certificate call
MaxDelay == 1
\* how many AllowedSigners requests are made, and how many seconds the clock
\* advances while they run
MaxRequests == 3
MaxSignersTicks == 3
\* how many AllowedSigners requests the locks and the cache are checked with
MaxCacheRequests == 2
\* how many servers the agent is configured with, and how long the
\* authorizer's list of signers gets
MaxServers == 2
\* how many calls a caller makes with the challenges it was given
MaxPresented == 3
MaxSigners == 2
\* AllowedSignersConfiguration: lru_rate_limiter_size, rate_limit_cooldown and
\* cache_validity_length
LruSize == 1
RateLimitCooldown == 2
CacheValidityLength == 1
\* ClientAuthorityConfiguration.expiration_renewal_period
ExpirationRenewalPeriod == 2
\* ClientAuthorityConfiguration.validity_length
ValidityLength == 3

(* Program constants *)
FreshnessWindow == 5
MaxChallengeLen == 1024
MaxPubkeyLen == 1024

U64Modulus == 2 ^ TimeBits
EndTime == StartTime + MaxTicks
SignersEndTime == StartTime + MaxSignersTicks

None == <<>>
Some(x) == <<x>>
IsSome(o) == Len(o) = 1
Get(o) == o[1]

-----------------------------------------------------------------------------
(* Strings *)

Digits == <<"0", "1", "2", "3", "4", "5", "6", "7", "8", "9">>
IsDigit(c) == \E d \in 1..10 : Digits[d] = c
DigitVal(c) == (CHOOSE d \in 1..10 : Digits[d] = c) - 1

\* u64::to_string
RECURSIVE u64_to_string(_)
u64_to_string(n) ==
    IF n < 10 THEN <<Digits[n + 1]>>
    ELSE u64_to_string(n \div 10) \o <<Digits[(n % 10) + 1]>>

\* the value of a digit string, or -1 once it no longer fits the integer width
RECURSIVE DigitsValue(_, _)
DigitsValue(s, acc) ==
    IF acc < 0 THEN -1
    ELSE IF s = <<>> THEN acc
    ELSE LET v == acc * 10 + DigitVal(Head(s))
         IN DigitsValue(Tail(s), IF v >= U64Modulus THEN -1 ELSE v)

\* str::parse::<u64>: an optional "+", then one or more digits, no overflow.
\* -1 stands for Err.
parse_u64(s) ==
    LET body == IF s # <<>> /\ Head(s) = "+" THEN Tail(s) ELSE s
    IN IF body = <<>> \/ \E i \in 1..Len(body) : ~IsDigit(body[i])
       THEN -1
       ELSE DigitsValue(body, 0)

\* [String]::join(sep)
RECURSIVE join(_, _)
join(list, sep) ==
    IF list = <<>> THEN <<>>
    ELSE IF Len(list) = 1 THEN list[1]
    ELSE list[1] \o sep \o join(Tail(list), sep)

\* str::len: every token is one byte but the filler
RECURSIVE StrLen(_)
StrLen(s) ==
    IF s = <<>> THEN 0
    ELSE (IF Head(s) = "PAD" THEN MaxPubkeyLen + 1 ELSE 1) + StrLen(Tail(s))

\* str::split_whitespace: the maximal runs of non-space tokens
RECURSIVE split_whitespace(_, _, _)
split_whitespace(s, word, acc) ==
    IF s = <<>> THEN (IF word = <<>> THEN acc ELSE Append(acc, word))
    ELSE IF Head(s) = " "
         THEN split_whitespace(Tail(s), <<>>,
                               IF word = <<>> THEN acc ELSE Append(acc, word))
         ELSE split_whitespace(Tail(s), Append(word, Head(s)), acc)

\* format!("{}-{}-{}", a, b, c)
FormatChallenge(a, b, c) == a \o <<"-">> \o b \o <<"-">> \o c

-----------------------------------------------------------------------------
(* Keys, HMAC, SSH public keys and certificates *)

\* key pairs the callers hold
CallerKeys == {"A", "B"}
\* RusticaServer.challenge_key
challenge_key == "CK"
\* RusticaServer.hmac_key, and a key a caller made up
hmac_key == "HK"
CallerHmacKey == "EK"
\* the blobs that decode to a public key
KeyBlobs == CallerKeys \cup {challenge_key}

\* PublicKey::fingerprint().hash
fingerprint(key) == "SHA256:" \o key

\* ring::hmac::sign / ring::hmac::verify
hmac_sign(key, msg) == [k |-> key, m |-> msg]
hmac_verify(key, msg, tag) == tag = hmac_sign(key, msg)

\* hex::encode of a tag, a key id that is plain text, and hex::decode
NoTag == [k |-> "", m |-> <<>>]
hex_encode(tag) == [hex |-> TRUE, bytes |-> tag, text |-> <<>>]
TextKeyId(s) == [hex |-> FALSE, bytes |-> NoTag, text |-> s]
hex_decode(kid) == IF kid.hex THEN Some(kid.bytes) ELSE None

\* sshcerts PublicKey::from_string: "<type> <base64> [comment]"
PublicKey_from_string(s) ==
    LET words == split_whitespace(s, <<>>, <<>>)
    IN IF Len(words) < 2 THEN None
       ELSE IF words[1] # <<"ssh-ed25519">> THEN None
       ELSE IF Len(words[2]) = 1 /\ words[2][1] \in KeyBlobs
            THEN Some(words[2][1])
            ELSE None

\* Certificate::builder(..).serial(..).key_id(..)...sign(signer): the fields
\* and the key that made the signature
BuildCertificate(key, cert_type, signature_key, serial, key_id, principals, valid_after, valid_before, critical_options, extensions, signer) ==
    [key |-> key, cert_type |-> cert_type, signature_key |-> signature_key,
     serial |-> serial, key_id |-> key_id, principals |-> principals,
     valid_after |-> valid_after, valid_before |-> valid_before,
     critical_options |-> critical_options, extensions |-> extensions,
     signature |-> signer]

\* format!("{}", cert): the OpenSSH text of a certificate
CertificateDisplay(cert) == [kind |-> "cert", body |-> cert, pad |-> FALSE]
\* the same text with a long comment appended
Padded(s) == [s EXCEPT !.pad = TRUE]
\* text that is no certificate
Junk(s) == [s EXCEPT !.kind = "junk"]
CertStrLen(s) == IF s.pad THEN MaxChallengeLen + 1 ELSE 1

\* Certificate::from_string: parses the text and verifies the signature
\* against the signing key the certificate names
Certificate_from_stringMutUnverified(s) ==
    IF s.kind = "cert" THEN Some(s.body) ELSE None
Certificate_from_string(s) ==
    IF s.kind = "cert" /\ s.body.signature = s.body.signature_key
    THEN Some(s.body)
    ELSE None

-----------------------------------------------------------------------------
(* The peer's mTLS certificate *)

\* a CommonName of one character, and one with a dash in it
CN_a == <<"a">>
CN_xa == <<"x", "-", "a">>

PeerCert(cns, form, not_after) ==
    [cn |-> cns, form |-> form, not_after |-> not_after]

\* extract_certificate_information: Err(NotAuthorized) is None
extract_certificate_information(peer) ==
    IF peer.form # "ok" THEN None
    ELSE Some([identities |-> peer.cn, expiry_timestamp |-> peer.not_after])

-----------------------------------------------------------------------------
(* validate_request *)

\* u64 subtraction in a build without overflow checks
wrapping_sub(a, b) == (a - b + U64Modulus) % U64Modulus

\* (time - request_time) > 5
ChallengeExpiredMutGe(time, request_time) ==
    wrapping_sub(time, request_time) >= FreshnessWindow
ChallengeExpired(time, request_time) ==
    wrapping_sub(time, request_time) > FreshnessWindow

\* the string the tag is verified against
hmac_verification(request_time, challenge, identities) ==
    FormatChallenge(u64_to_string(request_time), challenge.pubkey,
                    join(identities, <<",">>))

\* hmac::verify(hmac_key, hmac_verification, decoded_challenge).is_err()
HmacRejectsMutNever(request_time, challenge, identities, decoded) == FALSE
HmacRejects(request_time, challenge, identities, decoded) ==
    ~hmac_verify(hmac_key,
                 hmac_verification(request_time, challenge, identities),
                 decoded)

\* parsed_certificate.signature_key.fingerprint().hash
\*     != srv.challenge_key.pubkey.fingerprint().hash
NotSignedByUsMutNever(cert) == FALSE
NotSignedByUs(cert) ==
    fingerprint(cert.signature_key) # fingerprint(challenge_key)

\* parsed_certificate.key.fingerprint().hash
\*     != parsed_certificate.signature_key.fingerprint().hash
NotSelfSigned(cert) ==
    fingerprint(cert.key) # fingerprint(cert.signature_key)

\* parsed_certificate.key.fingerprint().hash != hmac_ssh_pubkey.fingerprint().hash
KeyNotAttested(cert, hmac_ssh_pubkey) ==
    fingerprint(cert.key) # fingerprint(hmac_ssh_pubkey)

\* the reissuance hint
certificate_refresh_settingsMutLe(time, expiry_timestamp) ==
    IF time > expiry_timestamp
       \/ expiry_timestamp - time <= ExpirationRenewalPeriod
    THEN Some([not_after |-> time + ValidityLength, not_before |-> time])
    ELSE None
certificate_refresh_settings(time, expiry_timestamp) ==
    IF time > expiry_timestamp
       \/ expiry_timestamp - time < ExpirationRenewalPeriod
    THEN Some([not_after |-> time + ValidityLength, not_before |-> time])
    ELSE None

\* the results of validate_request; checks are the checks evaluated, in order
VErr(e, checks) ==
    [tag |-> "Err", err |-> e, pubkey |-> "", identities |-> <<>>,
     refresh |-> None, checks |-> checks]
VPanic(checks) ==
    [tag |-> "Panic", err |-> "", pubkey |-> "", identities |-> <<>>,
     refresh |-> None, checks |-> checks]
VOk(pubkey, identities, refresh, checks) ==
    [tag |-> "Ok", err |-> "", pubkey |-> pubkey, identities |-> identities,
     refresh |-> refresh, checks |-> checks]

\* the part of validate_request after the pubkey has parsed
validate_proof(proof, parsed_certificate, hmac_ssh_pubkey, identities, refresh, checks) ==
    IF ~proof
    THEN IF NotSignedByUs(parsed_certificate)
         THEN VErr("BadChallenge", checks \o <<"signed_by_us">>)
         ELSE VOk(hmac_ssh_pubkey, identities, refresh,
                  checks \o <<"signed_by_us">>)
    ELSE IF NotSelfSigned(parsed_certificate)
         THEN VErr("BadChallenge", checks \o <<"self_signed">>)
         ELSE IF KeyNotAttested(parsed_certificate, hmac_ssh_pubkey)
              THEN VErr("BadChallenge",
                        checks \o <<"self_signed", "key_attested">>)
              ELSE VOk(hmac_ssh_pubkey, identities, refresh,
                       checks \o <<"self_signed", "key_attested">>)

\* the part of validate_request after the freshness check
validate_challenge(proof, cert_info, request_time, time, challenge) ==
    LET c1 == <<"peer", "identities", "parse_time", "freshness", "size">>
        c2 == c1 \o <<"parse_cert">>
        c3 == c2 \o <<"hex">>
        c4 == c3 \o <<"hmac">>
        c5 == c4 \o <<"parse_pubkey">>
        parsed == Certificate_from_string(challenge.challenge)
    IN IF CertStrLen(challenge.challenge) > MaxChallengeLen
       THEN VErr("Unknown", c1)
       ELSE IF ~IsSome(parsed) THEN VErr("BadChallenge", c2)
       ELSE LET decoded == hex_decode(Get(parsed).key_id)
            IN IF ~IsSome(decoded) THEN VErr("BadChallenge", c3)
               ELSE IF HmacRejects(request_time, challenge,
                                   cert_info.identities, Get(decoded))
                    THEN VErr("BadChallenge", c4)
               ELSE LET hmac_ssh_pubkey ==
                            PublicKey_from_string(challenge.pubkey)
                    IN IF ~IsSome(hmac_ssh_pubkey)
                       THEN VErr("BadChallenge", c5)
                       ELSE validate_proof(
                                proof, Get(parsed), Get(hmac_ssh_pubkey),
                                cert_info.identities,
                                certificate_refresh_settings(
                                    time, cert_info.expiry_timestamp),
                                c5)

\* validate_request(srv, hmac_key, peer_certs, challenge).  time is the clock
\* read; wraps tells whether the build subtracts without overflow checks.
validate_requestMutSizeFirst(proof, peer_certs, challenge, time, wraps) ==
    IF peer_certs = <<>> THEN VErr("BadRequest", <<"peer">>)
    ELSE LET info == extract_certificate_information(peer_certs[1])
             request_time == parse_u64(challenge.challenge_time)
         IN IF ~IsSome(info)
            THEN VErr("NotAuthorized", <<"peer", "identities">>)
            ELSE IF request_time < 0
                 THEN VErr("Unknown", <<"peer", "identities", "parse_time">>)
            ELSE IF CertStrLen(challenge.challenge) > MaxChallengeLen
                 THEN VErr("Unknown", <<"peer", "identities", "parse_time",
                                        "size">>)
            ELSE IF time < request_time /\ ~wraps
                 THEN VPanic(<<"peer", "identities", "parse_time",
                               "freshness">>)
            ELSE IF ChallengeExpired(time, request_time)
                 THEN VErr("TimeExpired",
                           <<"peer", "identities", "parse_time", "freshness">>)
            ELSE validate_challenge(proof, Get(info), request_time, time,
                                    challenge)
validate_request(proof, peer_certs, challenge, time, wraps) ==
    IF peer_certs = <<>> THEN VErr("BadRequest", <<"peer">>)
    ELSE LET info == extract_certificate_information(peer_certs[1])
             request_time == parse_u64(challenge.challenge_time)
         IN IF ~IsSome(info)
            THEN VErr("NotAuthorized", <<"peer", "identities">>)
            ELSE IF request_time < 0
                 THEN VErr("Unknown", <<"peer", "identities", "parse_time">>)
            ELSE IF time < request_time /\ ~wraps
                 THEN VPanic(<<"peer", "identities", "parse_time",
                               "freshness">>)
            ELSE IF ChallengeExpired(time, request_time)
                 THEN VErr("TimeExpired",
                           <<"peer", "identities", "parse_time", "freshness">>)
            ELSE validate_challenge(proof, Get(info), request_time, time,
                                    challenge)

-----------------------------------------------------------------------------
(* The signing registry: SigningMechanism *)

\* SigningMechanism.authorities: each backend's SSH user key, SSH host key
\* ("" when it has none), whether it has a client certificate authority and
\* whether it has a certificate authority for attested X509 certificates
Authorities == {"prod", "dev"}
Backend(authority) ==
    IF authority = "prod"
    THEN [user |-> "U1", host |-> "H1", client_ca |-> TRUE, x509_ca |-> TRUE]
    ELSE [user |-> "U2", host |-> "", client_ca |-> FALSE, x509_ca |-> FALSE]
\* SigningMechanism.default_authority
default_authority == "prod"
\* ClientAuthorityConfiguration.authority
client_authority == "prod"

\* Signer::get_signer_public_key(cert_type)
Signer_get_signer_public_key(backend, cert_type) ==
    LET key == IF cert_type = "User" THEN backend.user ELSE backend.host
    IN IF key = "" THEN None ELSE Some(key)

\* SigningMechanism::get_signer_public_key(authority, cert_type)
get_signer_public_key(authority, cert_type) ==
    IF authority \in Authorities
    THEN Signer_get_signer_public_key(Backend(authority), cert_type)
    ELSE None

\* Signer::sign(cert) of a backend: signs with the backend's key for the
\* certificate's type.  strict tells whether the signature is verified against
\* the signing key named in the certificate before it is returned.
Signer_sign(backend, cert, strict) ==
    LET key == Signer_get_signer_public_key(backend, cert.cert_type)
    IN IF ~IsSome(key) THEN None
       ELSE IF strict /\ Get(key) # cert.signature_key THEN None
       ELSE Some([cert EXCEPT !.signature = Get(key)])

\* SigningMechanism::sign(authority, cert)
SigningMechanism_signMutDefault(authority, cert, strict) ==
    Signer_sign(Backend(default_authority), cert, strict)
SigningMechanism_sign(authority, cert, strict) ==
    IF authority \in Authorities
    THEN Signer_sign(Backend(authority), cert, strict)
    ELSE None

\* SigningMechanism::get_attested_x509_certificate_authority(authority):
\* None is Err(UnknownAuthority), Some(FALSE) is Ok(None), Some(TRUE) Ok(Some(ca))
get_attested_x509_certificate_authority(authority) ==
    IF authority \in Authorities THEN Some(Backend(authority).x509_ca)
    ELSE None

\* SigningMechanism::get_client_certificate_authority(authority): Ok(Some(ca))
has_client_certificate_authority(authority) ==
    authority \in Authorities /\ Backend(authority).client_ca

-----------------------------------------------------------------------------
(* The Certificate endpoint *)

NoValidation == VErr("", <<>>)
NoAuthorization ==
    [ok |-> FALSE, err |-> "",
     auth |-> [authority |-> "", serial |-> 0, valid_after |-> 0,
               valid_before |-> 0, principals |-> <<>>, extensions |-> {},
               force_command |-> None, force_source_ip |-> FALSE]]

\* create_response(e): an inline error
create_response(e) ==
    [certificate |-> None, error |-> e, error_code |-> e,
     new_client_certificate |-> None, new_client_key |-> None]

\* what one run of the handler did: status is "ok" when a response was
\* returned, else the tonic Status, or "panic"; calls are the steps taken
Outcome(status, response, v, calls, authz, signed, log) ==
    [status |-> status, response |-> response, validated |-> v,
     calls |-> calls, authz |-> authz, signed |-> signed, log |-> log]
InlineMutTransport(e, v, calls, authz, signed) ==
    Outcome("cancelled", None, v, calls, authz, signed, None)
Inline(e, v, calls, authz, signed) ==
    Outcome("ok", Some(create_response(e)), v, calls, authz, signed, None)

\* valid_before < valid_after || current_timestamp > valid_before
BadWindowMutNever(request, current_timestamp) == FALSE
BadWindowMutNoOrder(request, current_timestamp) ==
    current_timestamp > request.valid_before
BadWindowMutNoExpiry(request, current_timestamp) ==
    request.valid_before < request.valid_after
BadWindow(request, current_timestamp) ==
    request.valid_before < request.valid_after
    \/ current_timestamp > request.valid_before

\* match request.cert_type { 1 => User, 2 => Host, _ => BadCertOptions }
req_cert_type(cert_type) ==
    IF cert_type = 1 THEN Some("User")
    ELSE IF cert_type = 2 THEN Some("Host")
    ELSE None

\* if request.key_id.is_empty() { default_authority } else { key_id }
requested_authority(request) ==
    IF request.key_id = "" THEN default_authority ELSE request.key_id

\* force-command and source-address
critical_options(authorization, remote_addr) ==
    (IF IsSome(authorization.force_command)
     THEN {<<"force-command", Get(authorization.force_command)>>} ELSE {})
    \cup (IF authorization.force_source_ip
          THEN {<<"source-address", remote_addr>>} ELSE {})

\* Certificate::builder(&ssh_pubkey, req_cert_type, &ca_cert).serial(..)...
IssuedKeyId(fp) == TextKeyId(<<"Rustica-JITC-for-", fp>>)
certificate_builderMutSwapped(ssh_pubkey, cert_type, ca_cert, authorization, remote_addr) ==
    BuildCertificate(ssh_pubkey, cert_type, ca_cert, authorization.serial,
                     IssuedKeyId(fingerprint(ssh_pubkey)),
                     authorization.principals, authorization.valid_before,
                     authorization.valid_after,
                     critical_options(authorization, remote_addr),
                     authorization.extensions, "")
certificate_builderMutZeroWindow(ssh_pubkey, cert_type, ca_cert, authorization, remote_addr) ==
    BuildCertificate(ssh_pubkey, cert_type, ca_cert, authorization.serial,
                     IssuedKeyId(fingerprint(ssh_pubkey)),
                     authorization.principals, authorization.valid_after,
                     authorization.valid_after,
                     critical_options(authorization, remote_addr),
                     authorization.extensions, "")
certificate_builderMutCaKey(ssh_pubkey, cert_type, ca_cert, authorization, remote_addr) ==
    BuildCertificate(ca_cert, cert_type, ca_cert, authorization.serial,
                     IssuedKeyId(fingerprint(ssh_pubkey)),
                     authorization.principals, authorization.valid_after,
                     authorization.valid_before,
                     critical_options(authorization, remote_addr),
                     authorization.extensions, "")
certificate_builder(ssh_pubkey, cert_type, ca_cert, authorization, remote_addr) ==
    BuildCertificate(ssh_pubkey, cert_type, ca_cert, authorization.serial,
                     IssuedKeyId(fingerprint(ssh_pubkey)),
                     authorization.principals, authorization.valid_after,
                     authorization.valid_before,
                     critical_options(authorization, remote_addr),
                     authorization.extensions, "")

\* the rolling mTLS certificate: CertificateParams::new(mtls_identities)
\* makes the identities its subject alternative names
new_client_certificateMutNoCn(identities, settings) ==
    [common_name |-> <<"rcgen self signed cert">>,
     subject_alt_names |-> identities,
     not_before |-> settings.not_before, not_after |-> settings.not_after,
     issuer |-> client_authority]
new_client_certificate(identities, settings) ==
    [common_name |-> IF identities = <<>> THEN <<>> ELSE identities[1],
     subject_alt_names |-> identities,
     not_before |-> settings.not_before, not_after |-> settings.not_after,
     issuer |-> client_authority]

\* Log::CertificateIssued
CertificateIssued(fp, ca_cert, authority, cert_type, v, authorization, remote_addr) ==
    [fingerprint |-> fp, signed_by |-> fingerprint(ca_cert),
     authority |-> authority, serial |-> authorization.serial,
     certificate_type |-> cert_type, mtls_identities |-> v.identities,
     principals |-> authorization.principals,
     extensions |-> authorization.extensions,
     critical_options |-> critical_options(authorization, remote_addr),
     valid_after |-> authorization.valid_after,
     valid_before |-> authorization.valid_before,
     new_access_certificate_issued |-> IsSome(v.refresh)]

\* the reply of a successful issuance
success_reply(serialized_cert, v) ==
    LET renew == IsSome(v.refresh)
                 /\ has_client_certificate_authority(client_authority)
    IN [certificate |-> Some(serialized_cert), error |-> "",
        error_code |-> "Success",
        new_client_certificate |->
            IF renew
            THEN Some(new_client_certificate(v.identities, Get(v.refresh)))
            ELSE None,
        new_client_key |-> IF renew THEN Some("new-key") ELSE None]

\* certificate(): from the authorizer's answer to the reply
issue(v, request, remote_addr, cert_type, authority, ca_cert, authz, strict, calls) ==
    LET c1 == calls \o <<"authorize_ssh_cert">>
        c2 == c1 \o <<"sign">>
        c3 == c2 \o <<"from_string">>
        authorization == authz.auth
        cert == certificate_builder(v.pubkey, cert_type, ca_cert,
                                    authorization, remote_addr)
        signed == SigningMechanism_sign(authorization.authority, cert, strict)
    IN IF ~authz.ok THEN Inline(authz.err, v, c1, Some(authz), None)
       ELSE IF ~IsSome(signed)
            THEN Inline("BadChallenge", v, c2, Some(authz), None)
       ELSE IF ~IsSome(Certificate_from_string(CertificateDisplay(Get(signed))))
            THEN Inline("BadCertOptions", v, c3, Some(authz), signed)
       ELSE Outcome("ok",
                    Some(success_reply(CertificateDisplay(Get(signed)), v)),
                    v, c3, Some(authz), signed,
                    Some(CertificateIssued(fingerprint(v.pubkey), ca_cert,
                                           authority, cert_type, v,
                                           authorization, remote_addr)))

\* certificate(): from the validated challenge to the authorizer call
authorize(v, request, remote_addr, current_timestamp, authz, strict) ==
    LET c1 == <<"validate_request", "window">>
        c2 == c1 \o <<"cert_type">>
        c3 == c2 \o <<"get_signer_public_key">>
        cert_type == req_cert_type(request.cert_type)
        authority == requested_authority(request)
    IN IF BadWindow(request, current_timestamp)
       THEN Inline("BadCertOptions", v, c1, None, None)
       ELSE IF ~IsSome(cert_type)
            THEN Inline("BadCertOptions", v, c2, None, None)
       ELSE LET ca_cert == get_signer_public_key(authority, Get(cert_type))
            IN IF ~IsSome(ca_cert)
               THEN Inline("NotAuthorized", v, c3, None, None)
               ELSE issue(v, request, remote_addr, Get(cert_type), authority,
                          Get(ca_cert), authz, strict, c3)

\* RusticaServer::certificate.  time and time + delay are the two clock reads,
\* authz the authorizer's answer if it is asked, strict and wraps the
\* behaviour of the signing library and of the build.
certificate(proof, remote_addr, peer, request, time, delay, wraps, authz, strict) ==
    IF ~IsSome(remote_addr)
    THEN Outcome("permission_denied", None, NoValidation, <<>>, None, None,
                 None)
    ELSE IF ~IsSome(request.challenge) \/ ~IsSome(peer)
    THEN Inline("BadRequest", NoValidation, <<>>, None, None)
    ELSE LET v == validate_request(proof, Get(peer), Get(request.challenge),
                                   time, wraps)
         IN IF v.tag = "Panic"
            THEN Outcome("panic", None, v, <<"validate_request">>, None, None,
                         None)
            ELSE IF v.tag = "Err"
            THEN Inline(v.err, v, <<"validate_request">>, None, None)
            ELSE authorize(v, request, Get(remote_addr), time + delay, authz,
                           strict)

-----------------------------------------------------------------------------
(* The Challenge endpoint *)

\* 0xFEFEFEFEFEFEFEFE at the model's integer width
ChallengeSerial == U64Modulus - 2

\* RusticaServer::challenge: None is Status::permission_denied
challenge(proof, remote_addr, peer, request_pubkey, time) ==
    IF ~IsSome(remote_addr) \/ ~IsSome(peer) THEN None
    ELSE IF Get(peer) = <<>> THEN None
    ELSE LET info == extract_certificate_information(Get(peer)[1])
             ssh_pubkey == PublicKey_from_string(request_pubkey)
         IN IF ~IsSome(info) THEN None
            ELSE IF StrLen(request_pubkey) > MaxPubkeyLen THEN None
            ELSE IF ~IsSome(ssh_pubkey) THEN None
            ELSE LET timestamp == u64_to_string(time)
                     tag == hmac_sign(hmac_key,
                                FormatChallenge(timestamp, request_pubkey,
                                    join(Get(info).identities, <<",">>)))
                     cert == BuildCertificate(
                                 Get(ssh_pubkey), "Host", challenge_key,
                                 ChallengeSerial, hex_encode(tag), <<>>, 0, 0,
                                 {}, {}, challenge_key)
                 IN Some([time |-> timestamp,
                          challenge |-> CertificateDisplay(cert),
                          no_signature_required |-> ~proof])

-----------------------------------------------------------------------------
(* The RegisterKey and RegisterU2fKey endpoints *)

\* verify_piv_certificate_chain(certificate, intermediate): the chain either
\* verifies, and then names the key it attests, or it does not
verify_piv_certificate_chain(leaf, intermediate) ==
    IF leaf.der /\ leaf.chain = intermediate
    THEN Some([fingerprint |-> fingerprint(leaf.key),
               attestation |-> Some([certificate |-> leaf,
                                     intermediate |-> intermediate])])
    ELSE None

\* verify_u2f_certificate_chain(auth_data, auth_data_signature, intermediate, ..)
verify_u2f_certificate_chain(auth_data, auth_data_signature, intermediate) ==
    IF auth_data.der /\ auth_data.chain = intermediate
       /\ auth_data_signature = auth_data.key
    THEN Some([fingerprint |-> fingerprint(auth_data.key),
               attestation |-> Some([certificate |-> auth_data,
                                     intermediate |-> intermediate])])
    ELSE None

\* what one run of a registration handler did: the tonic Status ("ok" for a
\* response), the result of validate_request, the properties register_key of
\* the authorizer was called with, and the log event sent
Registration(status, v, registered, log) ==
    [status |-> status, validated |-> v, registered |-> registered,
     log |-> log]

KeyInfo(fp, mtls_identities) ==
    [fingerprint |-> fp, mtls_identities |-> mtls_identities]

\* ssh_pubkey.fingerprint().hash != key.fingerprint
AttestationMismatchMutNever(ssh_pubkey, key) == FALSE
AttestationMismatch(ssh_pubkey, key) ==
    fingerprint(ssh_pubkey) # key.fingerprint

\* register_key and register_u2f_key after validate_request: verified is the
\* result of the attestation check, registers whether the authorizer accepts
register(chain_required, requester_ip, v, verified, registers) ==
    LET fp == IF IsSome(verified) THEN Get(verified).fingerprint
              ELSE fingerprint(v.pubkey)
        attestation == IF IsSome(verified) THEN Get(verified).attestation
                       ELSE None
        register_properties ==
            [fingerprint |-> fp, pubkey |-> v.pubkey,
             mtls_identities |-> v.identities, requester_ip |-> requester_ip,
             attestation |-> attestation]
    IN IF IsSome(verified) /\ AttestationMismatch(v.pubkey, Get(verified))
       THEN Registration("invalid_argument", v, None, None)
       ELSE IF ~IsSome(verified) /\ chain_required
       THEN Registration("unavailable", v, None,
                Some([event |-> "KeyRegistrationFailure",
                      key_info |-> KeyInfo(fingerprint(v.pubkey),
                                           v.identities)]))
       ELSE IF registers
       THEN Registration("ok", v, Some(register_properties),
                Some([event |-> "KeyRegistered",
                      key_info |-> KeyInfo(fp, v.identities)]))
       ELSE Registration("unavailable", v, Some(register_properties),
                Some([event |-> "KeyRegistrationFailure",
                      key_info |-> KeyInfo(fp, v.identities)]))

\* the start of both handlers: None is no remote address, which is ""
requester_ip(remote_addr) ==
    IF IsSome(remote_addr) THEN Get(remote_addr) ELSE ""

\* RusticaServer::register_key
register_key(proof, chain_required, remote_addr, peer, request, time, wraps, registers) ==
    IF ~IsSome(request.challenge) \/ ~IsSome(peer)
    THEN Registration("permission_denied", NoValidation, None, None)
    ELSE LET v == validate_request(proof, Get(peer), Get(request.challenge),
                                   time, wraps)
         IN IF v.tag = "Panic" THEN Registration("panic", v, None, None)
            ELSE IF v.tag = "Err" THEN Registration("cancelled", v, None, None)
            ELSE register(chain_required, requester_ip(remote_addr), v,
                          verify_piv_certificate_chain(request.certificate,
                                                       request.intermediate),
                          registers)

\* RusticaServer::register_u2f_key
register_u2f_key(proof, chain_required, remote_addr, peer, request, time, wraps, registers) ==
    IF ~IsSome(request.challenge) \/ ~IsSome(peer)
    THEN Registration("permission_denied", NoValidation, None, None)
    ELSE LET v == validate_request(proof, Get(peer), Get(request.challenge),
                                   time, wraps)
         IN IF v.tag = "Panic" THEN Registration("panic", v, None, None)
            ELSE IF v.tag = "Err" THEN Registration("cancelled", v, None, None)
            ELSE register(chain_required, requester_ip(remote_addr), v,
                          verify_u2f_certificate_chain(
                              request.auth_data, request.auth_data_signature,
                              request.intermediate),
                          registers)

-----------------------------------------------------------------------------
(* The AttestedX509Certificate endpoint *)

\* what one run of the handler did: every failure is a tonic Status
X509Outcome(status, response, calls, authz, signed) ==
    [status |-> status, response |-> response, calls |-> calls,
     authz |-> authz, signed |-> signed]
X509Denied(calls, authz, signed) ==
    X509Outcome("permission_denied", None, calls, authz, signed)

\* the CSR with its security-relevant fields overwritten from the
\* authorization, signed by the authority's CA: the public key stays the CSR's
csr_serialize_der_with_signer(csr, authorization) ==
    [subject_pki |-> csr.key,
     subject_alt_names |-> <<authorization.common_name>>,
     serial |-> authorization.serial,
     is_ca |-> FALSE,
     organization |-> <<"Rustica-", authorization.authority>>,
     common_name |-> authorization.common_name,
     extensions |-> authorization.extensions,
     not_before |-> authorization.valid_after,
     not_after |-> authorization.valid_before,
     issuer |-> authorization.authority]

\* new_certificate.tbs_certificate.subject_pki != leaf.tbs_certificate.subject_pki
SubjectPkiMismatchMutNever(new_certificate, leaf) == FALSE
SubjectPkiMismatch(new_certificate, leaf) ==
    new_certificate.subject_pki # leaf.key

\* attested_x509_certificate(): from the authorizer's answer to the reply
sign_attested_x509(request, authz, calls) ==
    LET c1 == calls \o <<"authorize_attested_x509_cert">>
        c2 == c1 \o <<"csr">>
        c3 == c2 \o <<"get_attested_x509_certificate_authority">>
        c4 == c3 \o <<"serialize_der_with_signer">>
        c5 == c4 \o <<"subject_pki">>
        authorization == authz.auth
        ca_cert == get_attested_x509_certificate_authority(
                       authorization.authority)
        cert == csr_serialize_der_with_signer(request.csr, authorization)
    IN IF ~authz.ok THEN X509Denied(c1, Some(authz), None)
       ELSE IF ~request.csr.der THEN X509Denied(c2, Some(authz), None)
       ELSE IF ~IsSome(ca_cert) THEN X509Denied(c3, Some(authz), None)
       ELSE IF ~Get(ca_cert) THEN X509Denied(c3, Some(authz), None)
       ELSE IF ~request.attestation.der
            THEN X509Denied(c4, Some(authz), Some(cert))
       ELSE IF SubjectPkiMismatch(cert, request.attestation)
            THEN X509Denied(c5, Some(authz), Some(cert))
       ELSE X509Outcome("ok",
                Some([certificate |-> cert, error |-> "", error_code |-> 0]),
                c5, Some(authz), Some(cert))

\* RusticaServer::attested_x509_certificate
attested_x509_certificate(remote_addr, peer_certs, request, authz) ==
    IF ~IsSome(remote_addr) \/ ~IsSome(peer_certs)
    THEN X509Denied(<<>>, None, None)
    ELSE IF Len(Get(peer_certs)) # 1 THEN X509Denied(<<"peer">>, None, None)
    ELSE IF ~IsSome(extract_certificate_information(Get(peer_certs)[1]))
    THEN X509Denied(<<"peer", "identities">>, None, None)
    ELSE IF ~IsSome(verify_piv_certificate_chain(
                        request.attestation, request.attestation_intermediate))
    THEN X509Denied(<<"peer", "identities", "verify_piv_certificate_chain">>,
                    None, None)
    ELSE sign_attested_x509(request, authz,
             <<"peer", "identities", "verify_piv_certificate_chain">>)

-----------------------------------------------------------------------------
(* Startup: SigningConfiguration::convert_to_signing_mechanism *)

\* the authorities of a configuration file, and what a configured signer can
\* be: one that cannot be initialised, or one with an SSH user key and an SSH
\* host key ("" when it has none)
ConfiguredAuthorities == Authorities \cup {"test"}
ConfiguredKeys == {"", "U1", "H1"}
SignerTypes ==
    {[loads |-> FALSE, user |-> "", host |-> ""]}
    \cup {[loads |-> TRUE, user |-> u, host |-> h] :
              u \in ConfiguredKeys, h \in ConfiguredKeys}

\* signer.get_signer_public_key(cert_type).map(|x| x.fingerprint().hash)
key_hash(key) == IF key = "" THEN None ELSE Some(fingerprint(key))

\* public_keys.get(&hash)
public_keys_get(seen, hash) ==
    IF \E e \in seen : e[1] = hash
    THEN Some((CHOOSE e \in seen : e[1] = hash)[2])
    ELSE None

Converted(seen) == [err |-> <<>>, public_keys |-> seen]
Failed(e, seen) == [err |-> e, public_keys |-> seen]

\* the body of the loop of convert_to_signing_mechanism for one authority:
\* the error it returns, if any, and public_keys after it
visit_host_key(authority, host_hash, seen) ==
    IF ~IsSome(host_hash) THEN Converted(seen)
    ELSE IF IsSome(public_keys_get(seen, Get(host_hash)))
    THEN Failed(<<"DuplicatedKey", authority,
                  Get(public_keys_get(seen, Get(host_hash)))>>, seen)
    ELSE Converted(seen \cup {<<Get(host_hash), authority>>})

visit_authorityMutUserOnly(authority, signer, seen) ==
    LET user_hash == key_hash(signer.user)
        host_hash == key_hash(signer.host)
    IN IF ~signer.loads THEN Failed(<<"AccessError", authority>>, seen)
       ELSE IF IsSome(user_hash) /\ IsSome(host_hash) /\ user_hash = host_hash
       THEN Failed(<<"IdenticalUserAndHostKey", authority>>, seen)
       ELSE IF ~IsSome(user_hash) THEN Converted(seen)
       ELSE IF IsSome(public_keys_get(seen, Get(user_hash)))
       THEN Failed(<<"DuplicatedKey", authority,
                     Get(public_keys_get(seen, Get(user_hash)))>>, seen)
       ELSE Converted(seen \cup {<<Get(user_hash), authority>>})
visit_authority(authority, signer, seen) ==
    LET user_hash == key_hash(signer.user)
        host_hash == key_hash(signer.host)
    IN IF ~signer.loads THEN Failed(<<"AccessError", authority>>, seen)
       ELSE IF IsSome(user_hash) /\ IsSome(host_hash) /\ user_hash = host_hash
       THEN Failed(<<"IdenticalUserAndHostKey", authority>>, seen)
       ELSE IF ~IsSome(user_hash)
       THEN visit_host_key(authority, host_hash, seen)
       ELSE IF IsSome(public_keys_get(seen, Get(user_hash)))
       THEN Failed(<<"DuplicatedKey", authority,
                     Get(public_keys_get(seen, Get(user_hash)))>>, seen)
       ELSE visit_host_key(authority, host_hash,
                           seen \cup {<<Get(user_hash), authority>>})

-----------------------------------------------------------------------------
(* The AllowedSigners endpoint *)

\* LruCache::push(k, v): the key becomes the most recent entry; returns the
\* previous entry of the key, or the least recent entry when one was removed
\* for capacity, or None
lru_push(cache, k, v) ==
    IF \E i \in 1..Len(cache) : cache[i][1] = k
    THEN LET i == CHOOSE j \in 1..Len(cache) : cache[j][1] = k
         IN [cache |-> <<<<k, v>>>> \o SubSeq(cache, 1, i - 1)
                           \o SubSeq(cache, i + 1, Len(cache)),
             removed |-> Some(cache[i])]
    ELSE IF Len(cache) >= LruSize
    THEN [cache |-> <<<<k, v>>>> \o SubSeq(cache, 1, LruSize - 1),
          removed |-> Some(cache[Len(cache)])]
    ELSE [cache |-> <<<<k, v>>>> \o cache, removed |-> None]

\* is_rate_limited(srv, identities, current_time): the answer and the LRU
\* after the push
is_rate_limitedMutAnyKey(limiter, identities, current_time) ==
    LET pushed == lru_push(limiter, identities,
                           current_time + RateLimitCooldown)
    IN [rate_limiter |-> pushed.cache,
        removed |-> pushed.removed,
        limited |-> IF ~IsSome(pushed.removed) THEN FALSE
                    ELSE current_time < Get(pushed.removed)[2]]
is_rate_limited(limiter, identities, current_time) ==
    LET pushed == lru_push(limiter, identities,
                           current_time + RateLimitCooldown)
    IN [rate_limiter |-> pushed.cache,
        removed |-> pushed.removed,
        limited |-> IF ~IsSome(pushed.removed) THEN FALSE
                    ELSE IF Get(pushed.removed)[1] # identities THEN FALSE
                    ELSE current_time < Get(pushed.removed)[2]]

\* a request: where it is in allowed_signers(), the joined identities and the
\* current_time it read, the requests that were running when it read the
\* clock, what it has done so far, and the Status or payload it returned
NoRequest ==
    [pc |-> "idle", mtls_identities |-> <<>>, current_time |-> 0,
     concurrent |-> {}, calls |-> <<>>, status |-> "", reply |-> None]
Did(request, call) == [request EXCEPT !.calls = Append(@, call)]
Finished(request, status, reply) ==
    [request EXCEPT !.pc = "done", !.status = status, !.reply = reply]
\* the requests that are running
InFlight == {j \in DOMAIN requests : requests[j].pc \notin {"idle", "done"}}

\* allowed_signers() before the clock is read: the Status it returns, or "ok"
allowed_signers_peer(remote_addr, peer) ==
    IF ~IsSome(remote_addr) \/ ~IsSome(peer) THEN "permission_denied"
    ELSE IF Get(peer) = <<>> THEN "permission_denied"
    ELSE IF ~IsSome(extract_certificate_information(Get(peer)[1]))
    THEN "cancelled"
    ELSE "ok"

\* the MutexGuard of the rate limiter is dropped when is_rate_limited returns
drop_guardMutKept(holder) == holder
drop_guard(holder) == None

\* current_time <= cache.expiry_timestamp
cache_validMutNever(current_time, cache) == FALSE
cache_valid(current_time, cache) == current_time <= cache.expiry_timestamp

\* the cache after "Update the cache"
cache_updateMutValidityOnly(current_time, compressed_allowed_signers) ==
    [compressed_allowed_signers |-> compressed_allowed_signers,
     expiry_timestamp |-> CacheValidityLength]
cache_update(current_time, compressed_allowed_signers) ==
    [compressed_allowed_signers |-> compressed_allowed_signers,
     expiry_timestamp |-> current_time + CacheValidityLength]

\* the lists get_allowed_signers of the authorizer can return, rendered and
\* compressed
AllowedSignersLists == {<<"alice", " ", "A">>, <<"bob", " ", "B">>}
zstd_compress(text) == <<"zstd">> \o text

-----------------------------------------------------------------------------
(* What callers can send *)

PK(blob) == <<"ssh-ed25519", " ", blob>>
\* key A with the comment "c", and with the comment "c-x"
PK_Ac == PK("A") \o <<" ", "c">>
PK_Acx == PK_Ac \o <<"-", "x">>
PK_B == PK("B")
\* the server's own challenge public key, which every challenge certificate
\* shows as its signing key
PK_CK == PK(challenge_key)
PK_bad == <<"ssh-ed25519">>
PK_long == PK("A") \o <<" ", "PAD">>

\* an mTLS certificate that does not expire soon
FarExpiry == EndTime + MaxDelay + ExpirationRenewalPeriod + 1
Peer_a == PeerCert(<<CN_a>>, "ok", FarExpiry)
Peer_xa == PeerCert(<<CN_xa>>, "ok", FarExpiry)
Peer_badcn == PeerCert(<<CN_a>>, "bad_cn", FarExpiry)
\* an mTLS certificate that comes up for renewal, and expires, while the
\* server runs
SoonExpiry == StartTime + ExpirationRenewalPeriod + 2
Peer_soon == PeerCert(<<CN_a>>, "ok", SoonExpiry)

Addr == Some("10.0.0.1")

\* a certificate a caller builds and signs with a key it holds
ForgedCert(key, signer, key_id) ==
    BuildCertificate(key, "Host", signer, ChallengeSerial, key_id, <<>>, 0, 0,
                     {}, {}, signer)

CallerTag == hex_encode(hmac_sign(CallerHmacKey, <<"x">>))

\* the key ids a caller can put in a certificate: the one of the challenge it
\* holds, a tag under a key of its own, and one that is not hex
KeyIds == (IF IsSome(minted) THEN {Get(minted).reply.challenge.body.key_id} ELSE {})
          \cup {CallerTag, TextKeyId(<<"x">>)}
MintedKeyIds == KeyIds \ {CallerTag, TextKeyId(<<"x">>)}

\* the challenge texts a caller can send
ChallengeTexts ==
    (IF IsSome(minted)
     THEN {Get(minted).reply.challenge, Padded(Get(minted).reply.challenge),
           Junk(Get(minted).reply.challenge)}
     ELSE {})
    \cup {CertificateDisplay(ForgedCert(k[1], k[2], kid)) :
              k \in {<<"A", "A">>, <<"B", "B">>, <<"A", "B">>},
              kid \in MintedKeyIds}
    \cup {CertificateDisplay(ForgedCert("A", "A", kid)) :
              kid \in {CallerTag, TextKeyId(<<"x">>)}}

\* the challenge_time strings a caller can send
ChallengeTimes ==
    (IF IsSome(minted)
     THEN {Get(minted).reply.time, <<"0">> \o Get(minted).reply.time} ELSE {})
    \cup {u64_to_string(now + 1), <<"x">>}

PubkeyTexts == {PK_Ac, PK_Acx, PK_B, PK_CK, PK_bad}

ChallengeMessage(t, p, c) == [challenge_time |-> t, pubkey |-> p, challenge |-> c]

CertificateRequest(ch, va, vb, ct, kid) ==
    [challenge |-> ch, valid_after |-> va, valid_before |-> vb,
     cert_type |-> ct, key_id |-> kid, principals |-> <<"alice">>,
     servers |-> <<>>]

\* the answers of the authorization backend
Authorization(authority, va, vb, cmd, ip) ==
    [ok |-> TRUE, err |-> "",
     auth |-> [authority |-> authority, serial |-> 7, valid_after |-> va,
               valid_before |-> vb, principals |-> <<"root">>,
               extensions |-> {<<"permit-pty", "">>},
               force_command |-> cmd, force_source_ip |-> ip]]
Denied == [NoAuthorization EXCEPT !.err = "NotAuthorized"]

AuthorityNames == Authorities \cup {"ghost"}

\* attestation leaves: DER that parses or not, the intermediate that signed
\* it and the key it attests
Leaf(der, key) == [der |-> der, chain |-> "yubico", key |-> key]
Leaves == {Leaf(TRUE, "A"), Leaf(TRUE, "B"), Leaf(FALSE, "A")}
Intermediates == {"yubico", "forged"}

RegisterKeyRequest(ch, leaf, intermediate) ==
    [challenge |-> ch, certificate |-> leaf, intermediate |-> intermediate]
RegisterU2fKeyRequest(ch, auth_data, signature, intermediate) ==
    [challenge |-> ch, auth_data |-> auth_data,
     auth_data_signature |-> signature, intermediate |-> intermediate]

\* certificate signing requests: DER that parses or not, and the public key
CSRs == {[der |-> TRUE, key |-> "A"], [der |-> TRUE, key |-> "B"],
         [der |-> FALSE, key |-> "A"]}
AttestedX509CertificateRequest(leaf, intermediate, csr, kid) ==
    [attestation |-> leaf, attestation_intermediate |-> intermediate,
     csr |-> csr, key_id |-> kid]

\* the answers of the authorization backend to an X509 request
X509Authorization(authority) ==
    [ok |-> TRUE, err |-> "",
     auth |-> [authority |-> authority, common_name |-> "alice", serial |-> 9,
               valid_after |-> 0, valid_before |-> 1, extensions |-> {}]]
X509Refused ==
    [ok |-> FALSE, err |-> "NotAuthorized",
     auth |-> [authority |-> "", common_name |-> "", serial |-> 0,
               valid_after |-> 0, valid_before |-> 0, extensions |-> {}]]

-----------------------------------------------------------------------------
(* Actions *)

\* the AllowedSigners state after construction: an empty LRU, an empty cache
\* that expired at time zero, no request made
\* no call of the agent has been made
NoFfiCall == [pc |-> "idle", servers |-> 0, server |-> 1, status |-> "",
              fetched |-> <<>>, existing |-> None]
AgentIdle ==
    /\ out_file = None
    /\ ffi = NoFfiCall
    /\ verify = None
    /\ presented = <<>>

SignersState(n) ==
    /\ rate_limiter = <<>>
    /\ allowed_signers_cache =
           [compressed_allowed_signers |-> <<>>, expiry_timestamp |-> 0]
    /\ limiter_lock = None
    /\ cache_readers = {}
    /\ cache_writer = None
    /\ requests = [i \in 1..n |-> NoRequest]
    /\ passed = {}
    /\ refreshes = <<>>
SignersConstructed == SignersState(MaxRequests)

\* the signing registry of the running server: the configuration was
\* converted, no authority is left to visit
RegistryConverted ==
    /\ authority_configurations =
           [a \in Authorities |->
               [loads |-> TRUE, user |-> Backend(a).user,
                host |-> Backend(a).host]]
    /\ pending = {}
    /\ public_keys =
           {<<fingerprint(Backend(a).user), a>> :
                a \in {x \in Authorities : Backend(x).user # ""}}
           \cup {<<fingerprint(Backend(a).host), a>> :
                     a \in {x \in Authorities : Backend(x).host # ""}}
    /\ converted_authorities = Authorities
    /\ mechanism = Some([ok |-> TRUE, err |-> <<>>])

\* the running server; the Certificate and Challenge endpoints do not read
\* require_attestation_chain
ServerStarted ==
    /\ now = StartTime
    /\ require_rustica_proof \in BOOLEAN
    /\ minted = None
    /\ resp = None
    /\ RegistryConverted
    /\ SignersConstructed
    /\ AgentIdle

Init ==
    /\ ServerStarted
    /\ require_attestation_chain = TRUE

\* the running server with either setting of require_attestation_chain
InitRegister ==
    /\ ServerStarted
    /\ require_attestation_chain \in BOOLEAN

\* a second passes
Tick ==
    /\ resp = None
    /\ now < EndTime
    /\ now' = now + 1
    /\ UNCHANGED <<require_rustica_proof, minted, resp>>
    /\ UNCHANGED <<require_attestation_chain, registryVars, signersVars,
                   agentVars>>

\* a caller calls Challenge and keeps the reply; a refused call leaves it
\* with what it had
ChallengeMutRemembered ==
    /\ resp = None
    /\ \E pubkey \in {PK_Ac, PK_CK, PK_bad, PK_long},
          peer \in {Peer_a, Peer_xa} :
          LET reply == challenge(require_rustica_proof, Addr,
                                 Some(<<peer>>), pubkey, now)
          IN /\ minted' = IF IsSome(reply)
                          THEN Some([reply |-> Get(reply), pubkey |-> pubkey,
                                     identities |-> peer.cn, at |-> now])
                          ELSE minted
             /\ rate_limiter' = IF IsSome(reply)
                                THEN <<<<peer.cn, now + FreshnessWindow>>>>
                                ELSE rate_limiter
    /\ UNCHANGED <<now, require_rustica_proof, resp>>
    /\ UNCHANGED <<require_attestation_chain, registryVars>>
    /\ UNCHANGED <<allowed_signers_cache, limiter_lock, cache_readers,
                   cache_writer, requests, passed, refreshes, agentVars>>
Challenge ==
    /\ resp = None
    /\ \E pubkey \in {PK_Ac, PK_CK, PK_bad, PK_long},
          peer \in {Peer_a, Peer_xa} :
          LET reply == challenge(require_rustica_proof, Addr,
                                 Some(<<peer>>), pubkey, now)
          IN minted' = IF IsSome(reply)
                       THEN Some([reply |-> Get(reply), pubkey |-> pubkey,
                                  identities |-> peer.cn, at |-> now])
                       ELSE minted
    /\ UNCHANGED <<now, require_rustica_proof, resp>>
    /\ UNCHANGED <<require_attestation_chain, registryVars, signersVars,
                   agentVars>>

\* one Certificate call, run to its reply
CertificateCall(remote_addr, peer, request, delay, wraps, authz, strict) ==
    resp' = Some([op |-> "certificate", remote_addr |-> remote_addr,
                  peer |-> peer, request |-> request, time |-> now,
                  delay |-> delay,
                  out |-> certificate(require_rustica_proof, remote_addr,
                                      peer, request, now, delay, wraps, authz,
                                      strict)])

\* Certificate calls with any challenge message and an ordinary request
CertificateAnyChallenge ==
    /\ resp = None
    /\ \E peer \in {None, Some(<<>>), Some(<<Peer_a>>), Some(<<Peer_xa>>),
                    Some(<<Peer_badcn>>), Some(<<Peer_a, Peer_xa>>)},
          ch \in {None} \cup
                 {Some(ChallengeMessage(t, p, c)) :
                      t \in ChallengeTimes, p \in PubkeyTexts,
                      c \in ChallengeTexts},
          wraps \in BOOLEAN :
          CertificateCall(Addr, peer,
                          CertificateRequest(ch, now, now + MaxDelay + 1, 1, ""),
                          0, wraps,
                          Authorization("prod", now, now + 1, None, FALSE),
                          TRUE)
    /\ UNCHANGED <<now, require_rustica_proof, minted>>
    /\ UNCHANGED <<require_attestation_chain, registryVars, signersVars,
                   agentVars>>

\* the answers the authorizer can give to a request: a denial, or an
\* authorization whose window satisfies valid_after < valid_before
AuthorizerAnswers ==
    {Denied}
    \cup {Authorization(a, now, now + 1, None, FALSE) : a \in AuthorityNames}
    \cup {Authorization(a, now + 1, now + 3, Some("ls"), TRUE) :
              a \in AuthorityNames}

\* whether a call gets as far as asking the authorizer
AsksAuthorizer(peer, request, delay) ==
    LET out == certificate(require_rustica_proof, Addr, peer, request, now,
                           delay, TRUE, Denied, TRUE)
    IN \E i \in 1..Len(out.calls) : out.calls[i] = "authorize_ssh_cert"

\* Certificate calls with the challenge as issued, or re-signed by the caller,
\* any request and any answer of the authorizer
CertificateAnyRequest ==
    /\ resp = None
    /\ IsSome(minted)
    /\ \E p \in {PK_Ac, PK_Acx, PK_CK},
          c \in {Get(minted).reply.challenge} \cup
                {CertificateDisplay(ForgedCert("A", "A", kid)) :
                     kid \in MintedKeyIds},
          w \in {<<now, now + MaxDelay + 1>>, <<now, now>>, <<now + 1, now>>,
                 <<now - 2, now - 1>>},
          ct \in 1..3,
          kid \in {""} \cup AuthorityNames,
          delay \in 0..MaxDelay,
          cert \in {Peer_a, Peer_soon} :
          LET peer == Some(<<cert>>)
              request == CertificateRequest(
                             Some(ChallengeMessage(Get(minted).reply.time, p, c)),
                             w[1], w[2], ct, kid)
              asks == AsksAuthorizer(peer, request, delay)
          IN \E authz \in IF asks THEN AuthorizerAnswers ELSE {Denied},
                strict \in IF asks THEN BOOLEAN ELSE {TRUE} :
                CertificateCall(Addr, peer, request, delay, TRUE, authz,
                                strict)
    /\ UNCHANGED <<now, require_rustica_proof, minted>>
    /\ UNCHANGED <<require_attestation_chain, registryVars, signersVars,
                   agentVars>>

\* the challenge messages sent with a registration: the challenge as issued
\* or re-signed by the caller, with any challenge_time
RegistrationChallenges ==
    {None} \cup
    (IF IsSome(minted)
     THEN {Some(ChallengeMessage(t, p, c)) :
               t \in ChallengeTimes, p \in {PK_Ac, PK_B},
               c \in {Get(minted).reply.challenge} \cup
                     {CertificateDisplay(ForgedCert("A", "A", kid)) :
                          kid \in MintedKeyIds}}
     ELSE {})

\* whether validate_request accepts, and whether the build matters to it
Validates(peer, ch) ==
    IsSome(peer) /\ IsSome(ch)
    /\ validate_request(require_rustica_proof, Get(peer), Get(ch), now,
                        TRUE).tag = "Ok"
Overflows(peer, ch) ==
    IsSome(peer) /\ IsSome(ch)
    /\ validate_request(require_rustica_proof, Get(peer), Get(ch), now,
                        FALSE).tag = "Panic"

\* one RegisterKey call, run to its reply
RegisterKey ==
    /\ resp = None
    /\ \E peer \in {None, Some(<<Peer_a>>)}, ch \in RegistrationChallenges,
          remote_addr \in {None, Addr} :
          \E leaf \in IF Validates(peer, ch) THEN Leaves
                       ELSE {Leaf(TRUE, "A")},
             intermediate \in IF Validates(peer, ch) THEN Intermediates
                               ELSE {"yubico"},
             registers \in IF Validates(peer, ch) THEN BOOLEAN ELSE {TRUE},
             wraps \in IF Overflows(peer, ch) THEN BOOLEAN ELSE {TRUE} :
             LET request == RegisterKeyRequest(ch, leaf, intermediate)
             IN resp' = Some([op |-> "register_key",
                              remote_addr |-> remote_addr, peer |-> peer,
                              request |-> request, time |-> now,
                              verified |-> verify_piv_certificate_chain(
                                               leaf, intermediate),
                              out |-> register_key(
                                          require_rustica_proof,
                                          require_attestation_chain,
                                          remote_addr, peer, request, now,
                                          wraps, registers)])
    /\ UNCHANGED <<now, require_rustica_proof, minted>>
    /\ UNCHANGED <<require_attestation_chain, registryVars, signersVars,
                   agentVars>>

\* one RegisterU2fKey call, run to its reply
RegisterU2fKey ==
    /\ resp = None
    /\ \E peer \in {None, Some(<<Peer_a>>)}, ch \in RegistrationChallenges :
          \E auth_data \in IF Validates(peer, ch) THEN Leaves
                            ELSE {Leaf(TRUE, "A")},
             signature \in IF Validates(peer, ch) THEN {"A", "forged"}
                            ELSE {"A"},
             registers \in IF Validates(peer, ch) THEN BOOLEAN ELSE {TRUE},
             wraps \in IF Overflows(peer, ch) THEN BOOLEAN ELSE {TRUE} :
             LET request == RegisterU2fKeyRequest(ch, auth_data, signature,
                                                  "yubico")
             IN resp' = Some([op |-> "register_u2f_key",
                              remote_addr |-> Addr, peer |-> peer,
                              request |-> request, time |-> now,
                              verified |-> verify_u2f_certificate_chain(
                                               auth_data, signature, "yubico"),
                              out |-> register_u2f_key(
                                          require_rustica_proof,
                                          require_attestation_chain,
                                          Addr, peer, request, now, wraps,
                                          registers)])
    /\ UNCHANGED <<now, require_rustica_proof, minted>>
    /\ UNCHANGED <<require_attestation_chain, registryVars, signersVars,
                   agentVars>>

\* one AttestedX509Certificate call, run to its reply
AttestedX509Certificate ==
    /\ resp = None
    /\ \E peer_certs \in {None, Some(<<>>), Some(<<Peer_a>>),
                          Some(<<Peer_a, Peer_xa>>), Some(<<Peer_badcn>>)},
          leaf \in Leaves, intermediate \in Intermediates,
          remote_addr \in {None, Addr} :
          LET asks == /\ IsSome(remote_addr)
                      /\ peer_certs = Some(<<Peer_a>>)
                      /\ IsSome(verify_piv_certificate_chain(leaf,
                                                             intermediate))
          IN \E csr \in IF asks THEN CSRs ELSE {[der |-> TRUE, key |-> "A"]},
                kid \in IF asks THEN {"", "dev"} ELSE {""},
                authz \in IF asks
                          THEN {X509Refused} \cup
                               {X509Authorization(a) : a \in AuthorityNames}
                          ELSE {X509Refused} :
                LET request == AttestedX509CertificateRequest(
                                   leaf, intermediate, csr, kid)
                IN resp' = Some([op |-> "attested_x509_certificate",
                                 remote_addr |-> remote_addr,
                                 peer |-> peer_certs, request |-> request,
                                 time |-> now,
                                 out |-> attested_x509_certificate(
                                             remote_addr, peer_certs, request,
                                             authz)])
    /\ UNCHANGED <<now, require_rustica_proof, minted>>
    /\ UNCHANGED <<require_attestation_chain, registryVars, signersVars,
                   agentVars>>

\* the process before the server is constructed: a configuration was read
InitStartup ==
    /\ now = StartTime
    /\ require_rustica_proof = FALSE
    /\ require_attestation_chain = FALSE
    /\ minted = None
    /\ resp = None
    /\ authority_configurations \in [ConfiguredAuthorities -> SignerTypes]
    /\ pending = ConfiguredAuthorities
    /\ public_keys = {}
    /\ converted_authorities = {}
    /\ mechanism = None
    /\ SignersConstructed
    /\ AgentIdle

\* one iteration of the loop: the HashMap yields any authority not yet visited
ConvertAuthority ==
    /\ mechanism = None
    /\ \E authority \in pending :
          LET visit == visit_authority(authority,
                                       authority_configurations[authority],
                                       public_keys)
          IN /\ pending' = pending \ {authority}
             /\ IF visit.err = <<>>
                THEN /\ public_keys' = visit.public_keys
                     /\ converted_authorities' =
                            converted_authorities \cup {authority}
                     /\ mechanism' = None
                ELSE /\ mechanism' = Some([ok |-> FALSE, err |-> visit.err])
                     /\ UNCHANGED <<public_keys, converted_authorities>>
    /\ UNCHANGED <<now, require_rustica_proof, minted, resp,
                   require_attestation_chain, authority_configurations,
                   signersVars, agentVars>>

\* the loop is over: Ok(SigningMechanism { default_authority, authorities })
ConvertDone ==
    /\ mechanism = None
    /\ pending = {}
    /\ mechanism' = Some([ok |-> TRUE, err |-> <<>>])
    /\ UNCHANGED <<now, require_rustica_proof, minted, resp,
                   require_attestation_chain, authority_configurations,
                   pending, public_keys, converted_authorities, signersVars,
                   agentVars>>

\* the clock of the AllowedSigners runs
SignersTick ==
    /\ resp = None
    /\ now < SignersEndTime
    /\ now' = now + 1
    /\ UNCHANGED <<serverVars, signersVars, agentVars>>

\* allowed_signers() up to the rate limiter: the peer is examined and the
\* clock is read; a call without an address or a readable peer certificate
\* returns its Status at once, the others go on to the rate limiter's mutex
AllowedSignersStart(i) ==
    /\ resp = None
    /\ requests[i].pc = "idle"
    /\ \A j \in 1..(i - 1) : requests[j].pc # "idle"
    /\ \E remote_addr \in {None, Addr},
          peer \in {None, Some(<<>>), Some(<<Peer_a>>), Some(<<Peer_xa>>),
                    Some(<<Peer_badcn>>)} :
          /\ remote_addr = None => peer = Some(<<Peer_a>>)
          /\ LET status == allowed_signers_peer(remote_addr, peer)
             IN IF status # "ok"
                THEN /\ resp' = Some([op |-> "allowed_signers",
                                      remote_addr |-> remote_addr,
                                      peer |-> peer,
                                      out |-> [status |-> status]])
                     /\ UNCHANGED requests
                ELSE /\ requests' =
                            [requests EXCEPT ![i] =
                                 [@ EXCEPT
                                    !.pc = "limiter",
                                    !.mtls_identities =
                                        join(Get(extract_certificate_information(
                                                     Get(peer)[1])).identities,
                                             <<",">>),
                                    !.current_time = now,
                                    !.concurrent = InFlight]]
                     /\ UNCHANGED resp
    /\ UNCHANGED agentVars
    /\ UNCHANGED <<now, require_rustica_proof, minted,
                   require_attestation_chain, registryVars, rate_limiter,
                   allowed_signers_cache, limiter_lock, cache_readers,
                   cache_writer, passed, refreshes>>

\* rate_limiter.lock().await
AllowedSignersLock(i) ==
    /\ requests[i].pc = "limiter"
    /\ limiter_lock = None
    /\ limiter_lock' = Some(i)
    /\ requests' = [requests EXCEPT ![i].pc = "push"]
    /\ UNCHANGED agentVars
    /\ UNCHANGED <<now, serverVars, rate_limiter, allowed_signers_cache,
                   cache_readers, cache_writer, passed, refreshes>>

\* is_rate_limited under the mutex: the push and the answer; the mutex is
\* released when is_rate_limited returns, then RESOURCE_EXHAUSTED or on to
\* the cache
AllowedSignersRateLimit(i) ==
    /\ requests[i].pc = "push"
    /\ limiter_lock = Some(i)
    /\ LET r == requests[i]
           answer == is_rate_limited(rate_limiter, r.mtls_identities,
                                     r.current_time)
           \* the entries of other identities removed for capacity
           evicted == IF IsSome(answer.removed)
                         /\ Get(answer.removed)[1] # r.mtls_identities
                      THEN {Get(answer.removed)[1]} ELSE {}
           kept == {p \in passed : p.mtls_identities \notin evicted}
       IN /\ rate_limiter' = answer.rate_limiter
          /\ requests' =
                 [requests EXCEPT ![i] =
                      IF answer.limited
                      THEN Finished(Did(@, "push"), "resource_exhausted",
                                    None)
                      ELSE [Did(@, "push") EXCEPT !.pc = "read"]]
          /\ passed' =
                 IF answer.limited THEN kept
                 ELSE kept \cup {[id |-> i,
                                  mtls_identities |-> r.mtls_identities,
                                  current_time |-> r.current_time]}
    /\ limiter_lock' = drop_guard(limiter_lock)
    /\ UNCHANGED agentVars
    /\ UNCHANGED <<now, serverVars, allowed_signers_cache, cache_readers,
                   cache_writer, refreshes>>

\* cache.read().await, which waits while a writer holds the lock
AllowedSignersReadLock(i) ==
    /\ requests[i].pc = "read"
    /\ cache_writer = None
    /\ cache_readers' = cache_readers \cup {i}
    /\ requests' = [requests EXCEPT ![i].pc = "check"]
    /\ UNCHANGED agentVars
    /\ UNCHANGED <<now, serverVars, rate_limiter, allowed_signers_cache,
                   limiter_lock, cache_writer, passed, refreshes>>

\* the check under the read lock; the lock is dropped at the end of the block
AllowedSignersRead(i) ==
    /\ requests[i].pc = "check"
    /\ i \in cache_readers
    /\ requests' =
           [requests EXCEPT ![i] =
                IF cache_valid(@.current_time, allowed_signers_cache)
                THEN Finished(Did(@, "read"), "ok",
                         Some(allowed_signers_cache.compressed_allowed_signers))
                ELSE [Did(@, "read") EXCEPT !.pc = "write"]]
    /\ cache_readers' = cache_readers \ {i}
    /\ UNCHANGED agentVars
    /\ UNCHANGED <<now, serverVars, rate_limiter, allowed_signers_cache,
                   limiter_lock, cache_writer, passed, refreshes>>

\* cache.write().await and the second check of the expiry; a request that
\* has to refresh keeps the write lock while it asks the authorizer
AllowedSignersWrite(i) ==
    /\ requests[i].pc = "write"
    /\ cache_writer = None
    /\ cache_readers = {}
    /\ IF cache_valid(requests[i].current_time, allowed_signers_cache)
       THEN /\ requests' =
                   [requests EXCEPT ![i] =
                        Finished(Did(@, "write"), "ok",
                            Some(allowed_signers_cache
                                     .compressed_allowed_signers))]
            /\ UNCHANGED cache_writer
       ELSE /\ requests' =
                   [requests EXCEPT ![i] =
                        [Did(Did(@, "write"), "get_allowed_signers")
                             EXCEPT !.pc = "fetch"]]
            /\ cache_writer' = Some(i)
    /\ UNCHANGED agentVars
    /\ UNCHANGED <<now, serverVars, rate_limiter, allowed_signers_cache,
                   limiter_lock, cache_readers, passed, refreshes>>

\* get_allowed_signers returns, the list is rendered and compressed and the
\* cache is updated; or one of them fails.  The write lock is released when
\* the handler returns.
AllowedSignersRefreshMutStamped(i) ==
    /\ requests[i].pc = "fetch"
    /\ cache_writer = Some(i)
    /\ \E answered \in BOOLEAN, compressed \in BOOLEAN,
          list \in AllowedSignersLists :
          /\ ~answered => (compressed /\ list = <<"alice", " ", "A">>)
          /\ ~compressed => list = <<"alice", " ", "A">>
          /\ IF answered /\ compressed
             THEN /\ allowed_signers_cache' =
                         cache_update(requests[i].current_time,
                                      zstd_compress(list))
                  /\ requests' =
                         [requests EXCEPT ![i] =
                              Finished(Did(@, "update"), "ok",
                                       Some(zstd_compress(list)))]
                  /\ refreshes' =
                         Append(refreshes,
                                [by |-> i, at |-> now,
                                 compressed_allowed_signers |->
                                     zstd_compress(list)])
             ELSE /\ requests' =
                         [requests EXCEPT ![i] =
                              Finished(@, "permission_denied", None)]
                  /\ allowed_signers_cache' =
                         [allowed_signers_cache EXCEPT
                              !.expiry_timestamp =
                                  requests[i].current_time
                                      + CacheValidityLength]
                  /\ UNCHANGED refreshes
    /\ cache_writer' = None
    /\ UNCHANGED agentVars
    /\ UNCHANGED <<now, serverVars, rate_limiter, limiter_lock,
                   cache_readers, passed>>
AllowedSignersRefresh(i) ==
    /\ requests[i].pc = "fetch"
    /\ cache_writer = Some(i)
    /\ \E answered \in BOOLEAN, compressed \in BOOLEAN,
          list \in AllowedSignersLists :
          /\ ~answered => (compressed /\ list = <<"alice", " ", "A">>)
          /\ ~compressed => list = <<"alice", " ", "A">>
          /\ IF answered /\ compressed
             THEN /\ allowed_signers_cache' =
                         cache_update(requests[i].current_time,
                                      zstd_compress(list))
                  /\ requests' =
                         [requests EXCEPT ![i] =
                              Finished(Did(@, "update"), "ok",
                                       Some(zstd_compress(list)))]
                  /\ refreshes' =
                         Append(refreshes,
                                [by |-> i, at |-> now,
                                 compressed_allowed_signers |->
                                     zstd_compress(list)])
             ELSE /\ requests' =
                         [requests EXCEPT ![i] =
                              Finished(@, "permission_denied", None)]
                  /\ UNCHANGED <<allowed_signers_cache, refreshes>>
    /\ cache_writer' = None
    /\ UNCHANGED agentVars
    /\ UNCHANGED <<now, serverVars, rate_limiter, limiter_lock,
                   cache_readers, passed>>

\* the running server as the AllowedSigners endpoint sees it
InitSigners ==
    /\ now = StartTime
    /\ require_rustica_proof = FALSE
    /\ require_attestation_chain = FALSE
    /\ minted = None
    /\ resp = None
    /\ RegistryConverted
    /\ SignersConstructed
    /\ AgentIdle

\* the same server, to which fewer requests are made
InitCache ==
    /\ now = StartTime
    /\ require_rustica_proof = FALSE
    /\ require_attestation_chain = FALSE
    /\ minted = None
    /\ resp = None
    /\ RegistryConverted
    /\ SignersState(MaxCacheRequests)
    /\ AgentIdle

-----------------------------------------------------------------------------
(* rustica-agent: fetching the allowed signers and reading them back *)

\* the (identity, pubkey) pairs get_allowed_signers of the authorizer lists
AllowedSigner(identity, pubkey) == [identity |-> identity, pubkey |-> pubkey]
SignerPairs ==
    {AllowedSigner(<<"alice">>, PK("A")),
     AllowedSigner(<<"bob">>, PK_B),
     AllowedSigner(<<"x", " ">> \o PK("A"), PK_B)}
SignerLists == UNION {[1..n -> SignerPairs] : n \in 0..MaxSigners}

\* map(format!("{} {}", identity, pubkey)).collect().join("\n")
render_allowed_signers(list) ==
    join([k \in 1..Len(list) |-> list[k].identity \o <<" ">> \o list[k].pubkey],
         <<"\n">>)

\* zstd::stream::Decoder::new(bytes) and read_to_string
zstd_decode(bytes) ==
    IF bytes # <<>> /\ Head(bytes) = "zstd" THEN Some(Tail(bytes)) ELSE None

\* what a server can do with a call of the agent: a transport error or an
\* error Status, bytes that are no zstd frame, or the compressed rendering of
\* the list its authorizer returned
ServerAnswers ==
    {[list |-> <<>>, response |-> None],
     [list |-> <<>>, response |-> Some(<<"junk">>)]}
    \cup {[list |-> l,
           response |-> Some(zstd_compress(render_allowed_signers(l)))] :
              l \in SignerLists}

\* RusticaServer::get_allowed_signers: Ok(String) or Err
get_allowed_signers(response) ==
    IF ~IsSome(response) THEN None ELSE zstd_decode(Get(response))

\* str::lines
RECURSIVE str_lines(_, _, _)
str_lines(s, line, acc) ==
    IF s = <<>> THEN (IF line = <<>> THEN acc ELSE Append(acc, line))
    ELSE IF Head(s) = "\n" THEN str_lines(Tail(s), <<>>, Append(acc, line))
    ELSE str_lines(Tail(s), Append(line, Head(s)), acc)

\* str::splitn(2, ' ')
splitn2(s) ==
    IF \E k \in 1..Len(s) : s[k] = " "
    THEN LET k == CHOOSE c \in 1..Len(s) :
                      s[c] = " " /\ \A b \in 1..(c - 1) : s[b] # " "
         IN <<SubSeq(s, 1, k - 1), SubSeq(s, k + 1, Len(s))>>
    ELSE <<s>>

\* parse_allowed_signer: Option<(PublicKey, &str)>
parse_allowed_signer(allowed_signer) ==
    LET parts == splitn2(allowed_signer)
    IN IF Len(parts) # 2 THEN None
       ELSE LET key == PublicKey_from_string(parts[2])
            IN IF ~IsSome(key) THEN None
               ELSE Some([key |-> Get(key), identity |-> parts[1]])

\* lines().filter_map(parse_allowed_signer)
RECURSIVE filter_map_parse(_)
filter_map_parse(lines) ==
    IF lines = <<>> THEN <<>>
    ELSE LET parsed == parse_allowed_signer(Head(lines))
         IN parsed \o filter_map_parse(Tail(lines))

\* .filter(|x| ssh_signature.pubkey == x.0).next()
first_signer(entries, pubkey) ==
    IF \E k \in 1..Len(entries) : entries[k].key = pubkey
    THEN LET k == CHOOSE c \in 1..Len(entries) :
                      /\ entries[c].key = pubkey
                      /\ \A b \in 1..(c - 1) : entries[b].key # pubkey
         IN Some(entries[k])
    ELSE None

\* File::create(out_path): the file is created, or truncated if it exists
File_create(file) == Some(<<>>)
\* out_file.write_all(bytes) on the handle File::create returned
write_all(file, bytes) == Some(bytes)

FfiReturn(status) == [ffi EXCEPT !.pc = "done", !.status = status]

\* ffi_get_allowed_signers up to its loop: the configuration is read, the
\* runtime is built and the file is created; any of them can fail
FfiStart ==
    /\ ffi.pc = "idle"
    /\ \E failure \in {"", "ConfigurationError", "ParameterError",
                        "InternalError", "AllowedSignersFileError"},
          servers \in 0..MaxServers :
          IF failure # ""
          THEN /\ servers = 0
               /\ ffi' = FfiReturn(failure)
               /\ UNCHANGED out_file
          ELSE /\ ffi' = [ffi EXCEPT !.pc = "loop", !.servers = servers,
                                      !.existing = out_file]
               /\ out_file' = File_create(out_file)
    /\ UNCHANGED <<now, serverVars, signersVars, verify, presented>>

\* one turn of the loop over the configured servers
FfiServer ==
    /\ ffi.pc = "loop"
    /\ ffi.server <= ffi.servers
    /\ \E answer \in ServerAnswers, written \in BOOLEAN :
          LET allowed_signers == get_allowed_signers(answer.response)
              tried == [ffi EXCEPT !.fetched = Append(@, answer)]
          IN IF ~IsSome(allowed_signers)
             THEN /\ written
                  /\ ffi' = [tried EXCEPT !.server = @ + 1]
                  /\ UNCHANGED out_file
             ELSE IF written
             THEN /\ out_file' = write_all(out_file, Get(allowed_signers))
                  /\ ffi' = [tried EXCEPT !.pc = "done", !.status = "Success"]
             ELSE /\ UNCHANGED out_file
                  /\ ffi' = [tried EXCEPT !.pc = "done",
                                          !.status = "AllowedSignersFileError"]
    /\ UNCHANGED <<now, serverVars, signersVars, verify, presented>>

\* the loop ends without a list
FfiEnd ==
    /\ ffi.pc = "loop"
    /\ ffi.server > ffi.servers
    /\ ffi' = FfiReturn("InternalError")
    /\ UNCHANGED <<now, serverVars, signersVars, out_file, verify,
                   presented>>

\* ffi_verify_signed_data up to the choice of the allowed signer: the file
\* is read, its lines are parsed and the first entry with the key of the
\* signature is taken
FfiVerify ==
    /\ ffi.pc = "done"
    /\ verify = None
    /\ \E pubkey \in CallerKeys :
          verify' =
              Some(IF ~IsSome(out_file)
                   THEN [read |-> FALSE, pubkey |-> pubkey, entries |-> <<>>,
                         allowed_signer |-> None]
                   ELSE LET entries ==
                                filter_map_parse(
                                    str_lines(Get(out_file), <<>>, <<>>))
                        IN [read |-> TRUE, pubkey |-> pubkey,
                            entries |-> entries,
                            allowed_signer |-> first_signer(entries, pubkey)])
    /\ UNCHANGED <<now, serverVars, signersVars, out_file, ffi,
                   presented>>

\* the file the agent wrote at an earlier call
OldFile == render_allowed_signers(<<AllowedSigner(<<"bob">>, PK_B)>>)

\* the agent's machine: there may be a file at out_path already
InitAgent ==
    /\ now = StartTime
    /\ require_rustica_proof = FALSE
    /\ require_attestation_chain = FALSE
    /\ minted = None
    /\ resp = None
    /\ RegistryConverted
    /\ SignersState(MaxCacheRequests)
    /\ out_file \in {None, Some(OldFile)}
    /\ ffi = NoFfiCall
    /\ verify = None
    /\ presented = <<>>

-----------------------------------------------------------------------------
(* A caller presents one challenge in several calls *)

\* the Challenge message of the challenge the caller holds, as issued or
\* re-signed with the caller's key
HeldMessages ==
    {ChallengeMessage(Get(minted).reply.time, Get(minted).pubkey, c) :
         c \in {Get(minted).reply.challenge}
                \cup {CertificateDisplay(ForgedCert("A", "A", kid)) :
                          kid \in MintedKeyIds}}

\* the mTLS certificate the caller was given the challenge for
HeldPeer == IF Get(minted).identities = CN_a THEN Peer_a ELSE Peer_xa

\* the caller asks for the one challenge it goes on to present
ChallengeFirst == minted = None /\ Challenge

Presented(op, message, peer, out) ==
    [op |-> op, message |-> message, peer |-> peer, time |-> now,
     minted_at |-> Get(minted).at, out |-> out]

\* a Certificate call with the challenge the caller holds, run to its reply:
\* the handler consults no record of the challenges it has seen
PresentCertificateMutOnce ==
    /\ resp = None
    /\ IsSome(minted)
    /\ Len(presented) < MaxPresented
    /\ \E message \in HeldMessages, peer \in {HeldPeer},
          authz \in {Denied, Authorization("prod", now, now + 1, None, FALSE)} :
          LET request == CertificateRequest(Some(message), now,
                                            now + MaxDelay + 1, 1, "")
              seen == \E i \in DOMAIN presented :
                          presented[i].message = message
              out == IF seen
                     THEN Inline("BadChallenge", NoValidation, <<>>, None,
                                 None)
                     ELSE certificate(require_rustica_proof, Addr,
                                      Some(<<peer>>), request, now, 0, TRUE,
                                      authz, TRUE)
          IN /\ resp' = Some([op |-> "certificate", remote_addr |-> Addr,
                              peer |-> Some(<<peer>>), request |-> request,
                              time |-> now, delay |-> 0, out |-> out])
             /\ presented' = Append(presented,
                                    Presented("certificate", message, peer,
                                              out))
    /\ UNCHANGED <<now, require_rustica_proof, minted>>
    /\ UNCHANGED <<require_attestation_chain, registryVars, signersVars>>
    /\ UNCHANGED <<out_file, ffi, verify>>
PresentCertificate ==
    /\ resp = None
    /\ IsSome(minted)
    /\ Len(presented) < MaxPresented
    /\ \E message \in HeldMessages, peer \in {HeldPeer},
          authz \in {Denied, Authorization("prod", now, now + 1, None, FALSE)} :
          LET request == CertificateRequest(Some(message), now,
                                            now + MaxDelay + 1, 1, "")
              out == certificate(require_rustica_proof, Addr, Some(<<peer>>),
                                 request, now, 0, TRUE, authz, TRUE)
          IN /\ CertificateCall(Addr, Some(<<peer>>), request, 0, TRUE,
                                authz, TRUE)
             /\ presented' = Append(presented,
                                    Presented("certificate", message, peer,
                                              out))
    /\ UNCHANGED <<now, require_rustica_proof, minted>>
    /\ UNCHANGED <<require_attestation_chain, registryVars, signersVars>>
    /\ UNCHANGED <<out_file, ffi, verify>>

\* a RegisterKey call with the challenge the caller holds, run to its reply
PresentRegisterKey ==
    /\ resp = None
    /\ IsSome(minted)
    /\ Len(presented) < MaxPresented
    /\ \E message \in HeldMessages, peer \in {HeldPeer} :
          LET request == RegisterKeyRequest(Some(message), Leaf(TRUE, "A"),
                                            "yubico")
              out == register_key(require_rustica_proof,
                                  require_attestation_chain, Addr,
                                  Some(<<peer>>), request, now, TRUE, TRUE)
          IN /\ resp' = Some([op |-> "register_key", remote_addr |-> Addr,
                              peer |-> Some(<<peer>>), request |-> request,
                              time |-> now,
                              verified |-> verify_piv_certificate_chain(
                                               Leaf(TRUE, "A"), "yubico"),
                              out |-> out])
             /\ presented' = Append(presented,
                                    Presented("register_key", message, peer,
                                              out))
    /\ UNCHANGED <<now, require_rustica_proof, minted>>
    /\ UNCHANGED <<require_attestation_chain, registryVars, signersVars>>
    /\ UNCHANGED <<out_file, ffi, verify>>

\* the reply leaves the server
Respond ==
    /\ resp # None
    /\ resp' = None
    /\ UNCHANGED <<now, require_rustica_proof, minted>>
    /\ UNCHANGED <<require_attestation_chain, registryVars, signersVars,
                   agentVars>>

NextValidate == Tick \/ Challenge \/ CertificateAnyChallenge \/ Respond
NextIssue == Tick \/ Challenge \/ CertificateAnyRequest \/ Respond
NextRegister ==
    Tick \/ Challenge \/ RegisterKey \/ RegisterU2fKey
    \/ AttestedX509Certificate \/ Respond

\* the validation of challenges, and the issuance of certificates
SpecValidate == Init /\ [][NextValidate]_vars
SpecIssue == Init /\ [][NextIssue]_vars
\* the registration of keys and the issuance of attested X509 certificates
SpecRegister == InitRegister /\ [][NextRegister]_vars
\* the conversion of the signing configuration at startup
NextStartup == ConvertAuthority \/ ConvertDone
SpecStartup == InitStartup /\ [][NextStartup]_vars
\* a caller presents the challenge it holds in several calls
NextReuse ==
    Tick \/ ChallengeFirst \/ PresentCertificate \/ PresentRegisterKey
    \/ Respond
SpecReuse == Init /\ [][NextReuse]_vars
\* the agent fetches the allowed signers and reads them back
NextAgent == FfiStart \/ FfiServer \/ FfiEnd \/ FfiVerify
SpecAgent == InitAgent /\ [][NextAgent]_vars
\* concurrent AllowedSigners requests
NextSigners ==
    \/ SignersTick
    \/ Respond
    \/ \E i \in DOMAIN requests :
           \/ AllowedSignersStart(i)
           \/ AllowedSignersLock(i)
           \/ AllowedSignersRateLimit(i)
           \/ AllowedSignersReadLock(i)
           \/ AllowedSignersRead(i)
           \/ AllowedSignersWrite(i)
           \/ AllowedSignersRefresh(i)
SpecSigners == InitSigners /\ [][NextSigners]_vars
SpecCache == InitCache /\ [][NextSigners]_vars
\* the steps a request takes once allowed_signers() has read the clock
AllowedSignersStep(i) ==
    \/ AllowedSignersLock(i)
    \/ AllowedSignersRateLimit(i)
    \/ AllowedSignersReadLock(i)
    \/ AllowedSignersRead(i)
    \/ AllowedSignersWrite(i)
    \/ AllowedSignersRefresh(i)
\* the same requests under the scheduling of the tokio runtime: a task that
\* can run is polled, a lock that is free is handed to a task waiting for it,
\* and the authorizer's call returns
SpecCacheFair ==
    /\ InitCache
    /\ [][NextSigners]_vars
    /\ \A i \in 1..MaxCacheRequests : WF_vars(AllowedSignersStep(i))

-----------------------------------------------------------------------------
(* Properties of challenge validation *)

Called == IsSome(resp) /\ Get(resp).op = "certificate"
R == Get(resp)
Out == R.out
V == R.out.validated
Msg == Get(R.request.challenge)
\* the request got as far as validate_request with one readable peer
\* certificate and a challenge_time that parses
Validating ==
    /\ Called
    /\ IsSome(R.remote_addr) /\ IsSome(R.request.challenge) /\ IsSome(R.peer)
    /\ Get(R.peer) # <<>>
    /\ Get(R.peer)[1].form = "ok"
    /\ parse_u64(Msg.challenge_time) >= 0
RequestTime == parse_u64(Msg.challenge_time)
CallerIdentities == join(Get(R.peer)[1].cn, <<",">>)
ErrorCode == Get(Out.response).error_code
Replied(e) == Out.status = "ok" /\ IsSome(Out.response) /\ ErrorCode = e
Fresh == RequestTime <= R.time /\ R.time - RequestTime <= FreshnessWindow
\* the text presented is a well-formed certificate of acceptable length
PresentedCert == Msg.challenge.kind = "cert" /\ ~Msg.challenge.pad
                 /\ Msg.challenge.body.signature
                        = Msg.challenge.body.signature_key
\* the tag in the presented certificate is the HMAC of the string rebuilt from
\* the message and the caller
TagMatches ==
    /\ PresentedCert
    /\ Msg.challenge.body.key_id.hex
    /\ Msg.challenge.body.key_id.bytes
           = [k |-> hmac_key,
              m |-> u64_to_string(RequestTime) \o <<"-">> \o Msg.pubkey
                        \o <<"-">> \o CallerIdentities]
\* the challenge text is presented exactly as the Challenge endpoint issued it
AsIssued == IsSome(minted) /\ Msg.challenge = Get(minted).reply.challenge

\* C1 (as stated): a challenge minted by the Challenge endpoint fails validation
\* if and only if it is more than 5 seconds old or the rebuilt HMAC string
\* does not match its tag
C1_OnlyTwoCauses ==
    (Validating /\ AsIssued) => ((V.tag # "Ok") <=> (~Fresh \/ ~TagMatches))

\* C1 (amended): validation succeeds only for a challenge at most 5 seconds old
\* whose tag matches the rebuilt HMAC string; a fresh challenge with a matching
\* tag can still be refused by the later checks
C1_FreshAndMatching ==
    Validating => (V.tag = "Ok" => (Fresh /\ TagMatches))
C1_Witness ==
    Validating /\ AsIssued /\ V.tag = "Ok" /\ R.time > Get(minted).at

\* C2: a challenge minted for (t, P, I) and presented inside the freshness
\* window with another pubkey string, another challenge_time or by a caller
\* with other identities is answered BadChallenge, with no certificate
C2_BoundToAllThree ==
    (/\ Validating /\ Fresh /\ PresentedCert /\ IsSome(minted)
     /\ Msg.challenge.body.key_id = Get(minted).reply.challenge.body.key_id
     /\ \/ Msg.pubkey # Get(minted).pubkey
        \/ RequestTime # Get(minted).at
        \/ CallerIdentities # join(Get(minted).identities, <<",">>))
    => (Replied("BadChallenge") /\ ~IsSome(Get(Out.response).certificate))

\* C3: a challenge is accepted only if it is at most 5 seconds old; one that is
\* exactly 5 seconds old passes the freshness step, one that is 6 or more
\* seconds old is answered TimeExpired whatever else the message holds
C3_Freshness ==
    Validating =>
        /\ V.tag = "Ok" => Fresh
        /\ (RequestTime <= R.time /\ R.time - RequestTime = FreshnessWindow)
               => (Len(V.checks) > 4 /\ ~Replied("TimeExpired"))
        /\ (RequestTime <= R.time /\ R.time - RequestTime > FreshnessWindow)
               => (Replied("TimeExpired") /\ V.checks[Len(V.checks)] = "freshness")
C3_Witness ==
    Validating /\ R.time - RequestTime = FreshnessWindow /\ V.tag = "Ok"

\* C4: a challenge_time later than the server's clock is answered TimeExpired:
\* the handler neither accepts the challenge nor aborts
C4_FutureTimeExpired ==
    (Validating /\ RequestTime > R.time) => Replied("TimeExpired")

\* C5: with require_rustica_proof, validation succeeds only if the subject key,
\* the signing key and the HMAC-attested pubkey have one fingerprint; the
\* challenge certificate returned as the server signed it is answered
\* BadChallenge
C5_ProofOfPossession ==
    (Validating /\ require_rustica_proof) =>
        /\ V.tag = "Ok" =>
               /\ fingerprint(Msg.challenge.body.key)
                      = fingerprint(Msg.challenge.body.signature_key)
               /\ fingerprint(Msg.challenge.body.key) = fingerprint(V.pubkey)
        /\ (AsIssued /\ Fresh /\ TagMatches) => Replied("BadChallenge")

\* C6: without require_rustica_proof, validation succeeds only if the signing
\* key of the presented certificate is the challenge key; a certificate the
\* caller re-signed with its own key is answered BadChallenge, and the checks
\* of the proof path are not evaluated
C6_SignedByChallengeKey ==
    (Validating /\ ~require_rustica_proof) =>
        /\ V.tag = "Ok" =>
               fingerprint(Msg.challenge.body.signature_key)
                   = fingerprint(challenge_key)
        /\ (Fresh /\ TagMatches
            /\ Msg.challenge.body.signature_key \in CallerKeys
            /\ IsSome(PublicKey_from_string(Msg.pubkey)))
               => Replied("BadChallenge")
        /\ \A i \in 1..Len(V.checks) :
               V.checks[i] \notin {"self_signed", "key_attested"}
C6_Witness ==
    /\ Validating /\ ~require_rustica_proof /\ Fresh /\ TagMatches
    /\ Msg.challenge.body.signature_key = Msg.challenge.body.key
    /\ Msg.challenge.body.key = Get(PublicKey_from_string(Msg.pubkey))
    /\ Replied("BadChallenge")

-----------------------------------------------------------------------------
(* Properties of certificate issuance *)

Success == Called /\ Replied("Success")
\* the certificate in the response, parsed back
Issued == Get(Certificate_from_string(Get(Get(Out.response).certificate)))
\* the authorizer's answer, when it was asked
AuthorizerAsked == IsSome(Out.authz)
Auth == Get(Out.authz).auth
HasCall(c) == \E i \in 1..Len(Out.calls) : Out.calls[i] = c
CertificateSteps ==
    <<"validate_request", "window", "cert_type", "get_signer_public_key",
      "authorize_ssh_cert", "sign", "from_string">>
\* the SSH key of an authority's backend for the requested certificate type
BackendKey(authority) ==
    IF R.request.cert_type = 1 THEN Backend(authority).user
    ELSE Backend(authority).host

\* C7: the subject key of every successfully issued SSH certificate has the
\* fingerprint of the pubkey that was HMAC-attested in the request's challenge,
\* whatever the authorization backend answered
C7_SubjectKeyIsAttested ==
    Success =>
        /\ IsSome(Certificate_from_string(Get(Get(Out.response).certificate)))
        /\ fingerprint(Issued.key)
               = fingerprint(Get(PublicKey_from_string(Msg.pubkey)))
        /\ TagMatches
C7_Witness ==
    Success /\ Auth.force_source_ip /\ Auth.authority = "prod"
    /\ Issued.key = "A"

\* C8: the authorizer is asked only after the challenge validated, the validity
\* window passed, cert_type was 1 or 2 and the requested authority had a key of
\* that type, in this order; the signer is invoked only after the authorizer
\* granted; Success is answered only after signing and re-parsing succeeded
C8_IssuanceOrder ==
    Called =>
        /\ Out.calls = SubSeq(CertificateSteps, 1, Len(Out.calls))
        /\ AuthorizerAsked <=> HasCall("authorize_ssh_cert")
        /\ AuthorizerAsked =>
               /\ V.tag = "Ok"
               /\ R.request.valid_after <= R.request.valid_before
               /\ R.time + R.delay <= R.request.valid_before
               /\ R.request.cert_type \in {1, 2}
               /\ requested_authority(R.request) \in Authorities
               /\ BackendKey(requested_authority(R.request)) # ""
        /\ HasCall("sign") => (AuthorizerAsked /\ Get(Out.authz).ok)
        /\ Success =>
               /\ HasCall("sign") /\ HasCall("from_string")
               /\ IsSome(Out.signed)
               /\ Get(Get(Out.response).certificate)
                      = CertificateDisplay(Get(Out.signed))
               /\ Get(Out.signed).signature = Get(Out.signed).signature_key
C8_Witness ==
    Success /\ Out.calls = CertificateSteps /\ R.request.cert_type = 2

\* C9: a successfully issued SSH certificate carries the serial, principals,
\* extensions and validity of the authorization result, not of the request, and
\* the key id "Rustica-JITC-for-" followed by the attested key's fingerprint,
\* and it parses back; when the re-parse fails the answer is BadCertOptions
\* without a certificate
C9_ComposedFromAuthorization ==
    Called =>
        /\ Success =>
               /\ IsSome(Certificate_from_string(
                             Get(Get(Out.response).certificate)))
               /\ Issued.serial = Auth.serial
               /\ Issued.principals = Auth.principals
               /\ Issued.extensions = Auth.extensions
               /\ Issued.valid_after = Auth.valid_after
               /\ Issued.valid_before = Auth.valid_before
               /\ Issued.key_id.text
                      = <<"Rustica-JITC-for-",
                          "SHA256:" \o Get(PublicKey_from_string(Msg.pubkey))>>
        /\ (IsSome(Out.signed)
            /\ Get(Out.signed).signature # Get(Out.signed).signature_key)
               => (Replied("BadCertOptions")
                   /\ ~IsSome(Get(Out.response).certificate))
C9_Witness ==
    /\ Success
    /\ Auth.principals # R.request.principals
    /\ Auth.valid_after # R.request.valid_after
    /\ Auth.valid_before # R.request.valid_before

-----------------------------------------------------------------------------
(* Properties of the replies of the Certificate endpoint *)

\* the RusticaServerError values validate_request returns
ValidationErrors ==
    {"BadRequest", "NotAuthorized", "Unknown", "TimeExpired", "BadChallenge"}
\* the current_timestamp read after validation
CurrentTimestamp == R.time + R.delay

\* C11: when validate_request returns an error the call itself succeeds and the
\* CertificateResponse carries that error as its error_code; every inline
\* error response has no certificate, no new client certificate and no new
\* client key
C11_ValidationFailureInline ==
    Called =>
        /\ (V.tag = "Err" /\ V.err # "") =>
               /\ Out.status = "ok"
               /\ IsSome(Out.response)
               /\ Replied(V.err)
               /\ V.err \in ValidationErrors
        /\ (Out.status = "ok" /\ IsSome(Out.response) /\ ~Replied("Success")) =>
               /\ Get(Out.response).certificate = None
               /\ Get(Out.response).new_client_certificate = None
               /\ Get(Out.response).new_client_key = None
C11_Witness ==
    /\ Validating /\ V.tag = "Err" /\ V.err = "BadChallenge"
    /\ V.checks[Len(V.checks)] = "hmac"
    /\ Replied("BadChallenge")

\* C13 (as stated): a request that passed validation with
\* valid_before <= valid_after, equality included, is answered BadCertOptions
\* and the authorizer is not asked
C13_EqualWindowRejected ==
    (Called /\ V.tag = "Ok"
     /\ R.request.valid_before <= R.request.valid_after)
    => (Replied("BadCertOptions") /\ ~AuthorizerAsked)

\* C13 (amended): a request that passed validation with
\* valid_before < valid_after is answered BadCertOptions and the authorizer is
\* not asked; valid_before = valid_after is not refused by this test
C13_InvertedWindowRejected ==
    (Called /\ V.tag = "Ok") =>
        /\ R.request.valid_before < R.request.valid_after
               => (Replied("BadCertOptions") /\ ~AuthorizerAsked
                   /\ Out.calls = <<"validate_request", "window">>)
        /\ (R.request.valid_before = R.request.valid_after
            /\ CurrentTimestamp <= R.request.valid_before)
               => HasCall("cert_type")
C13_Witness ==
    /\ Called /\ V.tag = "Ok"
    /\ R.request.valid_before < R.request.valid_after
    /\ CurrentTimestamp <= R.request.valid_before
    /\ Replied("BadCertOptions")

\* C14 (as stated): a request that passed validation whose valid_before is the
\* server's current time, or earlier, is answered BadCertOptions
C14_ExpiringNowRejected ==
    (Called /\ V.tag = "Ok" /\ R.request.valid_before <= CurrentTimestamp)
    => Replied("BadCertOptions")

\* C14 (amended): a request that passed validation whose valid_before is
\* earlier than the server's current time is answered BadCertOptions; one whose
\* valid_before is the current time is not refused by this test
C14_ExpiredRejected ==
    (Called /\ V.tag = "Ok") =>
        /\ R.request.valid_before < CurrentTimestamp
               => (Replied("BadCertOptions") /\ ~AuthorizerAsked
                   /\ Out.calls = <<"validate_request", "window">>)
        /\ (R.request.valid_before = CurrentTimestamp
            /\ R.request.valid_after <= R.request.valid_before)
               => HasCall("cert_type")
C14_Witness ==
    /\ Called /\ V.tag = "Ok"
    /\ R.request.valid_after < R.request.valid_before
    /\ R.request.valid_before < CurrentTimestamp
    /\ Replied("BadCertOptions")

\* the expiry of the caller's mTLS certificate
PeerExpiry == Get(R.peer)[1].not_after
HintDue ==
    R.time > PeerExpiry \/ PeerExpiry - R.time < ExpirationRenewalPeriod

\* C15: validate_request returns a reissuance hint exactly when the clock it
\* read is past the peer certificate's expiry or less than
\* expiration_renewal_period before it; the hint is (not_before = that clock
\* read, not_after = it + validity_length); a hint is returned only when the
\* HMAC check passed
C15_ReissuanceHint ==
    Validating =>
        /\ V.tag = "Ok" =>
               /\ IsSome(V.refresh) <=> HintDue
               /\ IsSome(V.refresh) =>
                      Get(V.refresh) = [not_before |-> R.time,
                                        not_after |-> R.time + ValidityLength]
        /\ IsSome(V.refresh) =>
               /\ V.tag = "Ok" /\ TagMatches
               /\ \E i \in 1..Len(V.checks) : V.checks[i] = "hmac"
C15_Witness ==
    /\ Validating /\ V.tag = "Ok" /\ IsSome(V.refresh)
    /\ R.time < PeerExpiry /\ R.delay > 0

\* the reply of a call that returned one
Reply == Get(Out.response)
HasReply == Called /\ Out.status = "ok" /\ IsSome(Out.response)
NewClientCertificate == Get(Reply.new_client_certificate)
\* a new client certificate and key are attached exactly when the SSH
\* certificate was issued, validation returned a hint and the client authority
\* has a client CA; its CommonName is the caller's first identity and its
\* validity is the hint's
RollingCertificate ==
    /\ IsSome(Reply.new_client_certificate) <=> IsSome(Reply.new_client_key)
    /\ IsSome(Reply.new_client_certificate) <=>
           (/\ Replied("Success") /\ IsSome(V.refresh)
            /\ has_client_certificate_authority(client_authority))
    /\ IsSome(Reply.new_client_certificate) =>
           /\ NewClientCertificate.common_name = V.identities[1]
           /\ NewClientCertificate.not_before = Get(V.refresh).not_before
           /\ NewClientCertificate.not_after = Get(V.refresh).not_after
           /\ NewClientCertificate.issuer = client_authority

\* C16 (as stated): the response carries a new client certificate and key
\* exactly when the SSH certificate was issued, a hint was returned and the
\* client authority has a client CA; the certificate has the caller's first
\* identity as CommonName, no subject alternative names and the hint's validity
C16_RollingCertificateSanLess ==
    HasReply =>
        /\ RollingCertificate
        /\ IsSome(Reply.new_client_certificate) =>
               NewClientCertificate.subject_alt_names = <<>>

\* C16 (amended): as stated, except that the subject alternative names of the
\* new client certificate are the caller's mTLS identities
C16_RollingCertificate ==
    HasReply =>
        /\ RollingCertificate
        /\ IsSome(Reply.new_client_certificate) =>
               NewClientCertificate.subject_alt_names = V.identities
C16_Witness ==
    /\ HasReply /\ Replied("Success")
    /\ IsSome(Reply.new_client_certificate)
    /\ NewClientCertificate.not_before < CurrentTimestamp

-----------------------------------------------------------------------------
(* Properties of registration and of attested X509 issuance *)

Registering ==
    IsSome(resp) /\ Get(resp).op \in {"register_key", "register_u2f_key"}
AttestingX509 ==
    IsSome(resp) /\ Get(resp).op = "attested_x509_certificate"
\* the properties the authorizer's register_key was called with
Registered == Get(Out.registered)
\* the result of the attestation check on the request
Verified == Get(R.verified)

\* C12: the Certificate and AttestedX509Certificate endpoints answer every
\* request with a response, a failure being an error_code inside it, never
\* with a transport status
C12_FailuresInline ==
    (IsSome(resp) /\ R.op \in {"certificate", "attested_x509_certificate"})
    => (Out.status = "ok" /\ IsSome(Out.response))

\* C18: register_key of the authorizer is called only after validate_request
\* succeeded and only with the fingerprint of the HMAC-attested pubkey; an
\* attestation that verifies for another key gives invalid_argument; one that
\* does not verify gives unavailable with require_attestation_chain and a
\* registration without attestation otherwise; a validation error gives
\* cancelled and no registration
C18_RegistrationGuarded ==
    Registering =>
        /\ IsSome(Out.registered) =>
               /\ V.tag = "Ok" /\ TagMatches
               /\ V.pubkey = Get(PublicKey_from_string(Msg.pubkey))
               /\ Registered.fingerprint = fingerprint(V.pubkey)
               /\ Out.status \in {"ok", "unavailable"}
        /\ V.tag # "Ok" => (Out.registered = None /\ Out.status # "ok")
        /\ (V.tag = "Err" /\ V.err # "") => Out.status = "cancelled"
        /\ (V.tag = "Ok" /\ IsSome(R.verified)
            /\ Verified.fingerprint # fingerprint(V.pubkey))
               => (Out.status = "invalid_argument" /\ Out.registered = None)
        /\ (V.tag = "Ok" /\ ~IsSome(R.verified) /\ require_attestation_chain)
               => (Out.status = "unavailable" /\ Out.registered = None)
        /\ (V.tag = "Ok" /\ ~IsSome(R.verified) /\ ~require_attestation_chain)
               => (/\ IsSome(Out.registered)
                   /\ Registered.attestation = None
                   /\ Registered.fingerprint = fingerprint(V.pubkey))
        /\ Out.status = "ok" => IsSome(Out.registered)
C18_Witness ==
    /\ Registering /\ R.op = "register_key" /\ V.tag = "Ok"
    /\ IsSome(R.verified) /\ Verified.fingerprint # fingerprint(V.pubkey)
    /\ Out.status = "invalid_argument"

\* C19: AttestedX509Certificate returns a certificate only if the public key of
\* the newly signed certificate is the public key of the attestation leaf; a
\* CSR for another key yields no certificate, and it is refused only after the
\* authorizer was asked and the CA signed
C19_SubjectKeyIsLeafKey ==
    AttestingX509 =>
        /\ IsSome(Out.response) =>
               /\ Out.status = "ok"
               /\ Get(Out.response).certificate.subject_pki
                      = R.request.attestation.key
               /\ R.request.csr.key = R.request.attestation.key
               /\ Get(Out.response).certificate = Get(Out.signed)
        /\ R.request.csr.key # R.request.attestation.key
               => (Out.response = None /\ Out.status = "permission_denied")
        /\ (Out.calls # <<>> /\ Out.calls[Len(Out.calls)] = "subject_pki")
               => (/\ IsSome(Out.authz) /\ Get(Out.authz).ok
                   /\ IsSome(Out.signed))
C19_Witness ==
    /\ AttestingX509
    /\ R.request.csr.key # R.request.attestation.key
    /\ IsSome(Out.signed) /\ Out.status = "permission_denied"
    /\ Out.calls[Len(Out.calls)] = "subject_pki"

-----------------------------------------------------------------------------
(* Properties of the startup of the signing registry *)

Configured(a) == authority_configurations[a]
AllLoad == \A a \in ConfiguredAuthorities : Configured(a).loads
\* the authority has one key for both roles
IdenticalKeys(a) ==
    Configured(a).user # "" /\ Configured(a).user = Configured(a).host
\* two different authorities have an SSH key in common
SharedKey(a, b) ==
    /\ a # b
    /\ ({Configured(a).user, Configured(a).host}
        \cap {Configured(b).user, Configured(b).host}) \ {""} # {}
SomeIdentical == \E a \in ConfiguredAuthorities : IdenticalKeys(a)
SomeShared == \E a, b \in ConfiguredAuthorities : SharedKey(a, b)
Converting == IsSome(mechanism) /\ authority_configurations \in
                  [ConfiguredAuthorities -> SignerTypes]
Result == Get(mechanism)

\* C17 (as stated): the conversion succeeds only if no authority has one key
\* for both roles and no key occurs in two authorities; when two authorities
\* share a key it fails with DuplicatedKey naming both, and when an authority
\* has one key for both roles it fails with IdenticalUserAndHostKey
C17_ErrorByDefect ==
    (Converting /\ AllLoad) =>
        /\ Result.ok => (~SomeIdentical /\ ~SomeShared)
        /\ SomeShared =>
               /\ ~Result.ok /\ Result.err[1] = "DuplicatedKey"
               /\ SharedKey(Result.err[2], Result.err[3])
        /\ SomeIdentical =>
               (~Result.ok /\ Result.err[1] = "IdenticalUserAndHostKey")

\* C17 (amended): the conversion succeeds only if every signer loads, no
\* authority has one key for both roles and no key occurs in two authorities,
\* whatever the order of iteration; DuplicatedKey names two different
\* authorities that share a key and IdenticalUserAndHostKey names an authority
\* with one key for both roles; a configuration with shared keys only fails
\* with DuplicatedKey, one with identical keys only fails with
\* IdenticalUserAndHostKey, and one with both fails with either
C17_DistinctKeys ==
    Converting =>
        /\ Result.ok =>
               /\ AllLoad /\ ~SomeIdentical /\ ~SomeShared
               /\ converted_authorities = ConfiguredAuthorities
               /\ \A e \in public_keys :
                      e[1] \in {fingerprint(Configured(e[2]).user),
                                fingerprint(Configured(e[2]).host)}
        /\ (~Result.ok /\ Result.err[1] = "DuplicatedKey") =>
               SharedKey(Result.err[2], Result.err[3])
        /\ (~Result.ok /\ Result.err[1] = "IdenticalUserAndHostKey") =>
               IdenticalKeys(Result.err[2])
        /\ (AllLoad /\ SomeShared /\ ~SomeIdentical) =>
               (~Result.ok /\ Result.err[1] = "DuplicatedKey")
        /\ (AllLoad /\ SomeIdentical /\ ~SomeShared) =>
               (~Result.ok /\ Result.err[1] = "IdenticalUserAndHostKey")
        /\ (AllLoad /\ SomeIdentical /\ SomeShared) =>
               (~Result.ok /\ Result.err[1] \in
                    {"DuplicatedKey", "IdenticalUserAndHostKey"})
C17_Witness ==
    /\ Converting /\ AllLoad /\ ~SomeIdentical
    /\ ~Result.ok /\ Result.err[1] = "DuplicatedKey"
    /\ Configured(Result.err[2]).host = Configured(Result.err[3]).user
    /\ converted_authorities # {}

-----------------------------------------------------------------------------
(* Properties of the AllowedSigners endpoint *)

\* C20: two requests of one identity that both passed the rate limiter, with
\* the identity's entry not removed from the LRU for capacity between them,
\* read current times at least rate_limit_cooldown apart
C20_CooldownBetweenPasses ==
    \A p, q \in passed :
        (p.id # q.id /\ p.mtls_identities = q.mtls_identities
         /\ p.current_time <= q.current_time)
        => q.current_time - p.current_time >= RateLimitCooldown

\* what every AllowedSigners claim speaks of: the requests that were made,
\* and those the rate limiter has answered
Made == {i \in DOMAIN requests : requests[i].pc # "idle"}
Answered == {i \in Made : requests[i].pc \notin {"limiter", "push"}}
RateLimited(i) == requests[i].status = "resource_exhausted"
\* request j is the call that follows request i, from the same identity and
\* after request i has returned
Follows(i, j) ==
    /\ j = i + 1
    /\ i \in Made /\ j \in Made
    /\ requests[i].mtls_identities = requests[j].mtls_identities
    /\ i \notin requests[j].concurrent
\* no other identity has called
OneIdentity == \A i, j \in Made :
                   requests[i].mtls_identities = requests[j].mtls_identities

\* C21: of two consecutive calls of one identity, the second made less than
\* rate_limit_cooldown after the first and no other identity calling, the
\* second returns RESOURCE_EXHAUSTED, having done nothing but the push
C21_SecondCallExhausted ==
    \A i, j \in Answered :
        (/\ Follows(i, j)
         /\ OneIdentity
         /\ requests[j].current_time - requests[i].current_time
                < RateLimitCooldown)
        => /\ RateLimited(j)
           /\ requests[j].calls = <<"push">>

\* C22: no second refresh that changes the bytes served happens within
\* cache_validity_length of a refresh, so that the responses served in that
\* time carry the same bytes
C22_NoRefreshWithinValidity ==
    \A k, l \in 1..Len(refreshes) :
        (/\ k < l
         /\ refreshes[k].compressed_allowed_signers
                # refreshes[l].compressed_allowed_signers)
        => refreshes[l].at - refreshes[k].at > CacheValidityLength

\* the requests that called get_allowed_signers
Asked == {i \in Made : \E k \in 1..Len(requests[i].calls) :
                           requests[i].calls[k] = "get_allowed_signers"}
Served(i) == requests[i].pc = "done" /\ requests[i].status = "ok"
\* the requests made were all running together, each for another identity
Concurrently ==
    /\ Cardinality(Made) >= 2
    /\ \A i, j \in Made :
           i < j => /\ i \in requests[j].concurrent
                    /\ requests[i].mtls_identities
                           # requests[j].mtls_identities

\* C23: requests of distinct identities that run concurrently on an expired
\* cache, all of them served, made one call of get_allowed_signers between
\* them and were served the same bytes
C23_SingleFlight ==
    (Concurrently /\ \A i \in Made : Served(i))
    => /\ Cardinality(Asked) = 1
       /\ \A i, j \in Made : requests[i].reply = requests[j].reply

\* the requests whose call of get_allowed_signers is in flight
Fetching == {i \in DOMAIN requests : requests[i].pc = "fetch"}

\* C24 as claimed: no request holds the rate limiter's mutex, the cache's
\* read lock or the cache's write lock while its call of get_allowed_signers
\* is in flight
C24_NoLockAcrossAuthorizer ==
    \A i \in Fetching :
        /\ limiter_lock # Some(i)
        /\ i \notin cache_readers
        /\ cache_writer # Some(i)

\* C24 as amended: the mutex is held for the push only and the read lock for
\* the check of the expiry only, so neither is held while get_allowed_signers
\* is in flight; the write lock is held by the request that is refreshing
C24_LocksAcrossAuthorizer ==
    /\ \A i \in DOMAIN requests :
           /\ limiter_lock = Some(i) <=> requests[i].pc = "push"
           /\ i \in cache_readers <=> requests[i].pc = "check"
           /\ cache_writer = Some(i) <=> requests[i].pc = "fetch"
    /\ \A i \in Fetching :
           /\ limiter_lock # Some(i)
           /\ i \notin cache_readers
           /\ cache_writer = Some(i)

\* a call of get_allowed_signers is in flight while another request is in
\* the rate limiter
C24_Witness ==
    \E i \in Fetching, j \in DOMAIN requests :
        /\ cache_writer = Some(i)
        /\ limiter_lock = Some(j)
        /\ j # i

-----------------------------------------------------------------------------
(* The order of the checks of validate_request *)

\* validate_request was called
Examined ==
    /\ Called
    /\ IsSome(R.remote_addr) /\ IsSome(R.request.challenge) /\ IsSome(R.peer)
\* the checks in the order of the claim
CheckOrder ==
    <<"peer", "identities", "parse_time", "freshness", "size", "parse_cert",
      "hex", "hmac", "parse_pubkey">>
Checked(c) == \E k \in 1..Len(V.checks) : V.checks[k] = c
\* the signer checks fail: without proof the presented certificate is not
\* signed by the challenge key; with proof it is not signed by its own key or
\* its key is not the pubkey of the message
SignerChecksFail ==
    LET body == Msg.challenge.body
    IN IF ~require_rustica_proof
       THEN fingerprint(body.signature_key) # fingerprint(challenge_key)
       ELSE \/ fingerprint(body.key) # fingerprint(body.signature_key)
            \/ fingerprint(body.key)
                   # fingerprint(Get(PublicKey_from_string(Msg.pubkey)))
\* the error of the first check that fails on the request, "" when none does
FirstFailure ==
    IF Get(R.peer) = <<>> THEN "BadRequest"
    ELSE IF Get(R.peer)[1].form # "ok" THEN "NotAuthorized"
    ELSE IF parse_u64(Msg.challenge_time) < 0 THEN "Unknown"
    ELSE IF ~Fresh THEN "TimeExpired"
    ELSE IF Msg.challenge.pad THEN "Unknown"
    ELSE IF ~PresentedCert THEN "BadChallenge"
    ELSE IF ~TagMatches THEN "BadChallenge"
    ELSE IF ~IsSome(PublicKey_from_string(Msg.pubkey)) THEN "BadChallenge"
    ELSE IF SignerChecksFail THEN "BadChallenge"
    ELSE ""

\* C25: validate_request evaluates its checks in the order peer certificate,
\* identities, challenge_time, freshness, size, certificate parse, HMAC,
\* pubkey parse, signer checks, and the error it returns is the one of the
\* first check that fails; an oversized certificate is never parsed, and a
\* request both expired and oversized is answered TimeExpired
C25_FirstFailingCheck ==
    (Examined /\ V.tag # "Panic") =>
        /\ V.tag = (IF FirstFailure = "" THEN "Ok" ELSE "Err")
        /\ V.err = FirstFailure
        /\ \A k \in 1..Len(V.checks) :
               k <= Len(CheckOrder) => V.checks[k] = CheckOrder[k]
        /\ (Get(R.peer) # <<>> /\ Get(R.peer)[1].form = "ok"
            /\ parse_u64(Msg.challenge_time) >= 0 /\ Msg.challenge.pad)
           => ~Checked("parse_cert")

\* an expired and oversized request was answered TimeExpired
C25_Witness ==
    /\ Validating
    /\ ~Fresh
    /\ Msg.challenge.pad
    /\ Replied("TimeExpired")
    /\ ~Checked("size")

\* C26: challenge validation requires exactly one peer certificate: a request
\* presenting no peer certificate or more than one is never validated
C26_ExactlyOnePeerCertificate ==
    (Examined /\ Len(Get(R.peer)) # 1) => V.tag # "Ok"

-----------------------------------------------------------------------------
(* No per-challenge state *)

\* a step in which the Challenge endpoint issued a challenge
ChallengeIssued == minted' # minted
\* the outcomes validate_request can give for the message, the peer
\* certificates and the clock reading of the call
OutcomesOfCall ==
    {validate_request(require_rustica_proof, Get(R.peer), Msg, R.time, wraps) :
         wraps \in BOOLEAN}

-----------------------------------------------------------------------------
(* The validity window of issued SSH certificates *)

-----------------------------------------------------------------------------
(* is_rate_limited *)

\* request i runs is_rate_limited in this step
PushStep(i) == requests[i].pc = "push" /\ requests'[i].pc # "push"
\* the places of the LRU that hold an entry of the identity
HeldFor(mtls_identities) ==
    {k \in 1..Len(rate_limiter) : rate_limiter[k][1] = mtls_identities}

\* C29: is_rate_limited(identity, t) always pushes (identity, t +
\* rate_limit_cooldown) into the LRU, and answers true exactly when the LRU
\* held an entry of that identity whose deadline is strictly greater than t;
\* it answers false when the identity had no entry, also when the push
\* removed the entry of another identity for capacity
C29_RateLimitedIffOwnDeadlineAhead ==
    [][\A i \in DOMAIN requests :
          PushStep(i) =>
              LET r == requests[i]
                  refused == requests'[i].pc = "done"
                             /\ requests'[i].status = "resource_exhausted"
              IN /\ Len(rate_limiter') \in 1..LruSize
                 /\ rate_limiter'[1]
                        = <<r.mtls_identities,
                            r.current_time + RateLimitCooldown>>
                 /\ refused <=>
                        \E k \in HeldFor(r.mtls_identities) :
                            rate_limiter[k][2] > r.current_time
                 /\ ~refused => requests'[i].pc = "read"]_vars

\* a call is refused at a later time than the call that passed before it,
\* and the LRU holds the deadline counted from the refused call
C29_Witness ==
    \E i, j \in DOMAIN requests :
        /\ requests[i].pc \notin {"idle", "limiter", "push"}
        /\ requests[i].status # "resource_exhausted"
        /\ requests[j].status = "resource_exhausted"
        /\ requests[j].mtls_identities = requests[i].mtls_identities
        /\ requests[j].current_time > requests[i].current_time
        /\ rate_limiter[1] = <<requests[j].mtls_identities,
                               requests[j].current_time + RateLimitCooldown>>

\* the identity calls again and again, each call less than
\* rate_limit_cooldown after the one before, nobody else calls, and the
\* rate limiter has answered every call
SustainedCaller ==
    /\ OneIdentity
    /\ Made = Answered
    /\ \A i, j \in Made :
           j = i + 1 => requests[j].current_time - requests[i].current_time
                            < RateLimitCooldown

\* C30: a denied call still replaces the stored deadline with its own time +
\* rate_limit_cooldown, so an identity that keeps calling at intervals shorter
\* than rate_limit_cooldown is not served again after the call that passed
C30_SustainedCallerNeverServed ==
    SustainedCaller =>
        \A i, j \in Answered :
            (i < j /\ ~RateLimited(i)) => RateLimited(j)

-----------------------------------------------------------------------------
(* The double-checked refresh of the allowed-signers cache *)

\* request j called the authorizer
AskedAuthorizer(request) ==
    \E k \in 1..Len(request.calls) : request.calls[k] = "get_allowed_signers"
\* the request is given the payload the cache holds after the step
ServedFromCache(request) ==
    /\ request.pc = "done"
    /\ request.status = "ok"
    /\ request.reply
           = Some(allowed_signers_cache'.compressed_allowed_signers)

\* C31: a request that finds the cache expired under the read lock drops the
\* read lock and takes the write lock, where it checks the expiry again: when
\* its time <= expiry_timestamp by then, it returns the bytes of the cache
\* without calling the authorizer, otherwise it refreshes.  A request that
\* waits for a lock goes on only when no refresh is in progress, and every
\* payload served is the one the cache holds at that moment, never an older one
C31_DoubleCheckedRefresh ==
    [][\A j \in DOMAIN requests :
          LET r == requests[j]
              q == requests'[j]
              fresh == r.current_time <= allowed_signers_cache.expiry_timestamp
          IN /\ (r.pc = "check" /\ q.pc # "check") =>
                    /\ j \notin cache_readers'
                    /\ IF fresh THEN ServedFromCache(q) ELSE q.pc = "write"
             /\ (r.pc = "write" /\ q.pc # "write") =>
                    /\ cache_readers = {}
                    /\ IF fresh
                       THEN /\ ServedFromCache(q)
                            /\ ~AskedAuthorizer(q)
                            /\ UNCHANGED allowed_signers_cache
                            /\ cache_writer' = None
                       ELSE /\ q.pc = "fetch"
                            /\ cache_writer' = Some(j)
             /\ (r.pc \in {"read", "write"} /\ q.pc # r.pc) =>
                    cache_writer = None
             /\ (r.pc # "done" /\ q.pc = "done" /\ q.status = "ok") =>
                    ServedFromCache(q)]_vars

\* a request found the cache expired under the read lock and refreshed under
\* the write lock, and was served the bytes another request had fetched
C31_Witness ==
    \E i, j \in DOMAIN requests :
        /\ i # j
        /\ requests[j].pc = "done" /\ requests[j].status = "ok"
        /\ requests[j].calls = <<"push", "read", "write">>
        /\ Len(refreshes) = 1
        /\ refreshes[1].by = i
        /\ requests[j].reply = Some(refreshes[1].compressed_allowed_signers)

-----------------------------------------------------------------------------
(* A refresh that fails *)

\* the refresh of the request failed: the authorizer or the compression
RefreshFailed(request) ==
    /\ request.pc = "done"
    /\ request.status = "permission_denied"
    /\ AskedAuthorizer(request)
\* request j is the first request made after request i returned: all other
\* requests had returned before request i was made
NextAfter(i, j) ==
    /\ i \in Made /\ j \in Made
    /\ i < j
    /\ i \notin requests[j].concurrent
    /\ \A k \in Made \ {i, j} : k < i /\ requests[i].concurrent = {}

\* C32: when get_allowed_signers or the compression fails during a refresh,
\* the request returns PERMISSION_DENIED without a payload, the cache keeps
\* its bytes and its expiry_timestamp, the write lock is released, and the
\* next request that the rate limiter lets through calls the authorizer again
C32_FailedRefreshLeavesCache ==
    /\ [][\A i \in DOMAIN requests :
             (requests[i].pc = "fetch" /\ requests'[i].pc = "done"
              /\ requests'[i].status # "ok")
             => /\ requests'[i].status = "permission_denied"
                /\ requests'[i].reply = None
                /\ UNCHANGED allowed_signers_cache
                /\ cache_writer = Some(i) /\ cache_writer' = None]_vars
    /\ [](\A i, j \in DOMAIN requests :
             (/\ RefreshFailed(requests[i])
              /\ NextAfter(i, j)
              /\ requests[j].pc = "done"
              /\ ~RateLimited(j))
             => AskedAuthorizer(requests[j]))

\* after a failed refresh the next request refreshed the cache and was served
C32_Witness ==
    \E i, j \in DOMAIN requests :
        /\ RefreshFailed(requests[i])
        /\ NextAfter(i, j)
        /\ requests[j].pc = "done" /\ requests[j].status = "ok"
        /\ AskedAuthorizer(requests[j])
        /\ allowed_signers_cache.compressed_allowed_signers
               = Get(requests[j].reply)
        /\ cache_writer = None

-----------------------------------------------------------------------------
(* The agent's fetch of the allowed signers *)

\* what the agent decodes from a server's answer
Decoded(answer) == get_allowed_signers(answer.response)
\* the server yields a list: its answer decodes, and not to the empty text
Yields(answer) == IsSome(Decoded(answer)) /\ Get(Decoded(answer)) # <<>>
\* the call went through its servers and the file could be written
FetchReturned ==
    /\ ffi.pc = "done"
    /\ ffi.status \in {"Success", "InternalError"}
    /\ (ffi.status = "InternalError" => Len(ffi.fetched) = ffi.servers)

\* C33: ffi_get_allowed_signers tries the servers in order, writes the
\* decoded list of the first server that answers successfully to the output
\* path and returns Success; an empty response is not a success, and when no
\* server yields a list it returns InternalError
C33_FirstListWritten ==
    FetchReturned =>
        LET tried == Len(ffi.fetched)
        IN /\ \A k \in 1..(tried - 1) : ~Yields(ffi.fetched[k])
           /\ ffi.status = "Success" =>
                  /\ tried >= 1
                  /\ Yields(ffi.fetched[tried])
                  /\ out_file = Decoded(ffi.fetched[tried])
           /\ ffi.status = "InternalError" =>
                  \A k \in 1..tried : ~Yields(ffi.fetched[k])

\* C40: when ffi_get_allowed_signers fetches no list from any configured
\* server it returns InternalError and the file that was at the output path
\* keeps its content
C40_FailedFetchKeepsFile ==
    (/\ FetchReturned
     /\ IsSome(ffi.existing)
     /\ \A k \in 1..Len(ffi.fetched) : ~IsSome(Decoded(ffi.fetched[k])))
    => /\ ffi.status = "InternalError"
       /\ out_file = ffi.existing

\* the entries the authorizer listed, as the agent should read them back
Listed(list) ==
    [k \in 1..Len(list) |->
         [key |-> Get(PublicKey_from_string(list[k].pubkey)),
          identity |-> list[k].identity]]

\* C34: the list the authorizer returned, rendered by the server as
\* "{identity} {pubkey}" lines and parsed line by line with
\* parse_allowed_signer, gives back the same identity and the same public key
\* for every entry, in the same order
C34_RoundTrip ==
    (/\ ffi.pc = "done" /\ ffi.status = "Success"
     /\ IsSome(verify) /\ Get(verify).read)
    => Get(verify).entries = Listed(ffi.fetched[Len(ffi.fetched)].list)

-----------------------------------------------------------------------------
(* The expiry of the allowed-signers cache *)

\* the payloads the server can make of the authorizer's lists
CompressedLists == {zstd_compress(list) : list \in AllowedSignersLists}

\* C35: expiry_timestamp never decreases: the cache starts with expiry zero
\* and an empty payload, it is written only by the request that holds the
\* write lock, whose captured time is strictly greater than the expiry, and
\* the new expiry is that time + cache_validity_length; the empty payload of
\* the start is never served, every payload served being the compression of
\* a list the authorizer returned
C35_ExpiryNeverDecreases ==
    /\ allowed_signers_cache
           = [compressed_allowed_signers |-> <<>>, expiry_timestamp |-> 0]
    /\ [][/\ allowed_signers_cache'.expiry_timestamp
                 >= allowed_signers_cache.expiry_timestamp
          /\ allowed_signers_cache' # allowed_signers_cache =>
                 \E i \in DOMAIN requests :
                     /\ cache_writer = Some(i)
                     /\ requests[i].current_time
                            > allowed_signers_cache.expiry_timestamp
                     /\ allowed_signers_cache'.expiry_timestamp
                            = requests[i].current_time + CacheValidityLength
                     /\ allowed_signers_cache'.compressed_allowed_signers
                            \in CompressedLists]_vars
    /\ [](\A i \in DOMAIN requests :
             Served(i) => /\ IsSome(requests[i].reply)
                          /\ Get(requests[i].reply) # <<>>
                          /\ Get(requests[i].reply) \in CompressedLists)

\* the cache was refreshed twice, the second time to a later expiry, and the
\* payload of the second refresh was served
C35_Witness ==
    /\ Len(refreshes) = 2
    /\ allowed_signers_cache.expiry_timestamp
           = requests[refreshes[2].by].current_time + CacheValidityLength
    /\ requests[refreshes[2].by].current_time
           > requests[refreshes[1].by].current_time + CacheValidityLength
    /\ Served(refreshes[2].by)

-----------------------------------------------------------------------------
(* Termination of the AllowedSigners requests *)

\* the locks request i holds
HoldsLimiter(i) == limiter_lock = Some(i)
HoldsRead(i) == i \in cache_readers
HoldsWrite(i) == cache_writer = Some(i)
\* request i waits for the write lock, or for either lock of the cache
AwaitsWrite(i) == requests[i].pc = "write"
AwaitsCache(i) == requests[i].pc \in {"read", "write"}

\* C36: under fair scheduling, the authorizer's call returning, every
\* AllowedSigners request terminates: no request holds the cache's read lock
\* while it waits for the write lock, none holds the rate limiter's mutex
\* while it waits for a lock of the cache, and every request that has begun
\* returns, whatever the requests running with it
C36_RequestsTerminate ==
    /\ [](\A i \in DOMAIN requests :
             /\ AwaitsWrite(i) => ~HoldsRead(i)
             /\ AwaitsCache(i) => ~HoldsLimiter(i))
    /\ \A i \in 1..MaxCacheRequests :
           (requests[i].pc # "idle") ~> (requests[i].pc = "done")

\* two requests ran together for the expired cache: the first refreshed it
\* while the second waited for the write lock, and both have returned
C36_Witness ==
    /\ \A i \in DOMAIN requests : requests[i].pc = "done"
    /\ 1 \in requests[2].concurrent
    /\ Len(refreshes) = 1 /\ refreshes[1].by = 1
    /\ requests[2].calls = <<"push", "read", "write">>

-----------------------------------------------------------------------------
(* The authority of an issued certificate *)

\* the CertificateIssued event of the call
IssuedLog == Get(Out.log)
\* the authority whose backend signed: the one the authorization names
SigningAuthority == Auth.authority

\* C37: for every issued SSH certificate the CA key named in the certificate
\* as its signing key, and the authority and the signed_by fingerprint of the
\* CertificateIssued event, are those of the authority whose backend signed
\* it; a call whose authorization names another authority than the request
\* selected issues no certificate and sends no event, the keys of two
\* authorities being different
C37_IssuedByLoggedAuthority ==
    Called =>
        /\ Success =>
               /\ IsSome(Out.log) /\ AuthorizerAsked
               /\ Issued.signature = BackendKey(SigningAuthority)
               /\ Issued.signature_key = BackendKey(SigningAuthority)
               /\ IssuedLog.signed_by
                      = fingerprint(BackendKey(SigningAuthority))
               /\ IssuedLog.authority = SigningAuthority
        /\ IsSome(Out.log) => Success
        /\ (AuthorizerAsked /\ Get(Out.authz).ok
            /\ SigningAuthority # requested_authority(R.request)) =>
               ~Success

\* a certificate issued by an authority that is not the default one, which
\* the request selected and the authorization named
C37_Witness ==
    /\ Success
    /\ R.request.key_id = "dev"
    /\ SigningAuthority = "dev"
    /\ IssuedLog.authority = "dev"
    /\ Issued.signature_key = Backend("dev").user

-----------------------------------------------------------------------------
(* One challenge presented more than once *)

\* the call passed validate_request
Passed(call) == call.out.validated.tag = "Ok"
\* the call was made within the freshness window of its challenge
InWindow(call) == call.time - call.minted_at <= FreshnessWindow
\* call j presents again, from the same peer, the message call i presented
Again(i, j) ==
    /\ i < j
    /\ presented[j].message = presented[i].message
    /\ presented[j].peer = presented[i].peer
\* the Certificate call asked the authorizer, and was issued a certificate
AskedForIt(call) ==
    /\ IsSome(call.out.authz)
    /\ \E k \in 1..Len(call.out.calls) :
           call.out.calls[k] = "authorize_ssh_cert"
IssuedTo(call) ==
    /\ call.out.status = "ok"
    /\ IsSome(call.out.response)
    /\ Get(call.out.response).error_code = "Success"
    /\ IsSome(Get(call.out.response).certificate)
    /\ IsSome(call.out.log)

\* C38: a challenge is not single-use: a Challenge message that passed
\* validate_request passes it again in every later Certificate or RegisterKey
\* call that presents it within the 5-second window, and every Certificate
\* call that passes asks the authorizer itself and, when authorized, is issued
\* a certificate of its own
C38_ChallengeNotSingleUse ==
    /\ \A i, j \in DOMAIN presented :
           (Again(i, j) /\ Passed(presented[i]) /\ InWindow(presented[j])) =>
               Passed(presented[j])
    /\ \A j \in DOMAIN presented :
           (presented[j].op = "certificate" /\ Passed(presented[j])) =>
               /\ AskedForIt(presented[j])
               /\ Get(presented[j].out.authz).ok => IssuedTo(presented[j])

\* one message was presented three times at three different seconds: two
\* Certificate calls were each issued a certificate and a RegisterKey call
\* passed validate_request
C38_Witness ==
    /\ Len(presented) = 3
    /\ Again(1, 2) /\ Again(2, 3)
    /\ presented[1].time < presented[2].time
    /\ presented[2].time < presented[3].time
    /\ presented[1].op = "certificate" /\ IssuedTo(presented[1])
    /\ presented[2].op = "register_key" /\ Passed(presented[2])
    /\ presented[3].op = "certificate" /\ IssuedTo(presented[3])

-----------------------------------------------------------------------------
(* The rate limiter and a request that fails *)

\* request i passed the rate limiter and then failed: the authorizer's call
\* or the compression returned an error, and it was served nothing
PassedThenFailed(i) ==
    /\ requests[i].pc = "done"
    /\ requests[i].status = "permission_denied"
    /\ requests[i].reply = None
    /\ Len(requests[i].calls) > 1

\* C39: the rate limiter is charged before the cache is consulted: the push
\* is the first thing every request does, and when a request passed the rate
\* limiter and then failed, the call the same identity makes next, less than
\* rate_limit_cooldown later and no other identity calling, returns
\* RESOURCE_EXHAUSTED
C39_FailedCallStillCharged ==
    /\ \A i \in Made :
           requests[i].calls # <<>> => requests[i].calls[1] = "push"
    /\ \A i, j \in Answered :
           (/\ Follows(i, j)
            /\ OneIdentity
            /\ PassedThenFailed(i)
            /\ requests[j].current_time - requests[i].current_time
                   < RateLimitCooldown)
           => RateLimited(j)

\* the case of C39 with nothing else running: a request passed, failed, and
\* the retry was refused
C39_RetryRefused ==
    /\ Made = {1, 2}
    /\ Follows(1, 2) /\ PassedThenFailed(1) /\ RateLimited(2)
    /\ requests[2].current_time - requests[1].current_time < RateLimitCooldown

====
